---- MODULE Spec2Model ----
(***************************************************************************)
(* Workflow execution engine of modelbuilderAI                             *)
(* (backend/builder/workflow_engine.py, backend/orchestrator/pipeline.py). *)
(*                                                                         *)
(* Text is modelled as a sequence of tokens: a token is an atomic piece of *)
(* text (a word, a marker such as "{var:x}", or the literal separator).    *)
(* "".join / str concatenation is \o, the empty string is << >>.           *)
(***************************************************************************)
EXTENDS Integers, Sequences, FiniteSets, TLC

(***************************************************************************)
(* Bounds of the model                                                     *)
(***************************************************************************)
\* how many times the broadcast callback may raise during one run
MaxBroadcastFailures == 1
\* largest retryCount configured on a node of the modelled workflows
MaxRetryCount == 1
\* largest maxIterations configured on a loop node of the modelled workflows
MaxIterations == 2

(***************************************************************************)
(* Text helpers                                                            *)
(***************************************************************************)
EmptyStr == << >>

\* the literal "\n\n---\n\n" used by _collect_input and the aggregator
Separator == <<"\n\n---\n\n">>

\* str.lower() on one token
LowerToken(t) ==
    CASE t = "READY" -> "ready"
      [] t = "Ready" -> "ready"
      [] t = "True"  -> "true"
      [] t = "False" -> "false"
      [] t = " True " -> " true "
      [] OTHER -> t

\* str.strip() on one token
StripToken(t) ==
    CASE t = " True " -> "True"
      [] t = " true " -> "true"
      [] OTHER -> t

\* str.lower() on a text
Lower(s) == [i \in 1..Len(s) |-> LowerToken(s[i])]

\* str.upper() on one token
UpperToken(t) ==
    CASE t = "ok" -> "OK"
      [] t = "hello" -> "HELLO"
      [] t = "no" -> "NO"
      [] t = "approved" -> "APPROVED"
      [] t = "pass" -> "PASS"
      [] OTHER -> t

\* str.upper() on a text
Upper(s) == [i \in 1..Len(s) |-> UpperToken(s[i])]

\* str.strip() on a text: whitespace goes from its two ends
Strip(s) ==
    [i \in 1..Len(s) |-> IF i = 1 \/ i = Len(s) THEN StripToken(s[i]) ELSE s[i]]

\* str(i) for the small integers put into texts
IntText(i) ==
    CASE i = 0 -> "0" [] i = 1 -> "1" [] i = 2 -> "2" [] i = 3 -> "3"
      [] OTHER -> "4"

\* needle in hay  (Python substring test; "" is in every string)
Contains(needle, hay) ==
    \E i \in 1..(Len(hay) + 1) :
        /\ i + Len(needle) - 1 <= Len(hay)
        /\ SubSeq(hay, i, i + Len(needle) - 1) = needle

RECURSIVE JoinFrom(_, _, _)
JoinFrom(sep, parts, i) ==
    IF i > Len(parts) THEN EmptyStr
    ELSE IF i = Len(parts) THEN parts[i]
    ELSE parts[i] \o sep \o JoinFrom(sep, parts, i + 1)

\* sep.join(parts)
Join(sep, parts) == JoinFrom(sep, parts, 1)

\* dict.get(key, default) on a node's free-form data mapping
DataGet(data, key, default) ==
    IF key \in DOMAIN data THEN data[key] ELSE default

\* the Python expression  (value or default)  for an integer value
IntOr(v, default) == IF v = 0 THEN default ELSE v

\* the Python expression  (value or default)  for a str value
StrOr(v, default) == IF v = "" THEN default ELSE v

\* the Python expression  (value or default)  for a text value
TextOr(v, default) == IF v = EmptyStr THEN default ELSE v

(***************************************************************************)
(* Workflow definitions (models/workflow_models.py)                        *)
(***************************************************************************)
\* the members of the NodeType enum: the only values WorkflowNode.type accepts
NodeType ==
    {"agent", "tool", "condition", "input", "output", "loop", "aggregator",
     "meta_agent", "chunker"}

WorkflowNode(id, type, data) == [id |-> id, type |-> type, data |-> data]

WorkflowEdge(id, source, target, label) ==
    [id |-> id, source |-> source, target |-> target, label |-> label]

WorkflowDefinition(nodes, edges) == [nodes |-> nodes, edges |-> edges]

NodeIds(d) == {d.nodes[i].id : i \in 1..Len(d.nodes)}

NodeOf(d, nid) == CHOOSE n \in {d.nodes[i] : i \in 1..Len(d.nodes)} : n.id = nid

(***************************************************************************)
(* Graph analysis (WorkflowEngine.__init__, PipelineExecutor)              *)
(***************************************************************************)
WHITE == 0
GRAY == 1
BLACK == 2

\* adjacency[u] of _detect_back_edges: the edges leaving u, in edge order
Adjacency(d, u) == SelectSeq(d.edges, LAMBDA e : e.source = u)

\* color.get(v): None (here -1) for an id that is not a declared node
ColorGet(color, v) == IF v \in DOMAIN color THEN color[v] ELSE -1

RECURSIVE dfs(_, _, _), dfsAdj(_, _, _, _)
\* dfs(u) of _detect_back_edges; st = [color, back_edges]
dfs(d, u, st) ==
    LET entered == [st EXCEPT !.color[u] = GRAY]
        visited == dfsAdj(d, u, 1, entered)
    IN  [visited EXCEPT !.color[u] = BLACK]

\* the  for v, eid in adjacency.get(u, [])  loop of dfs, from position i
dfsAdj(d, u, i, st) ==
    LET adj == Adjacency(d, u) IN
    IF i > Len(adj) THEN st
    ELSE LET v == adj[i].target
             eid == adj[i].id
         IN  IF ColorGet(st.color, v) = GRAY
             THEN dfsAdj(d, u, i + 1, [st EXCEPT !.back_edges = @ \cup {eid}])
             ELSE IF ColorGet(st.color, v) = WHITE
             THEN dfsAdj(d, u, i + 1, dfs(d, v, st))
             ELSE dfsAdj(d, u, i + 1, st)

RECURSIVE dfsRoots(_, _, _)
\* the  for node in definition.nodes: if color[node.id] == WHITE: dfs(node.id)
dfsRoots(d, i, st) ==
    IF i > Len(d.nodes) THEN st
    ELSE IF st.color[d.nodes[i].id] = WHITE
         THEN dfsRoots(d, i + 1, dfs(d, d.nodes[i].id, st))
         ELSE dfsRoots(d, i + 1, st)

\* WorkflowEngine._detect_back_edges
_detect_back_edges(d) ==
    dfsRoots(d, 1, [color |-> [n \in NodeIds(d) |-> WHITE],
                    back_edges |-> {}]).back_edges

\* dag_edges of __init__: the edges that are not back-edges, in edge order
dag_edges(d) ==
    LET back == _detect_back_edges(d)
    IN  SelectSeq(d.edges, LAMBDA e : e.id \notin back)

\* self._incoming_edges.get(n, []) / self._outgoing_edges.get(n, [])
_incoming_edges(d, n) == SelectSeq(dag_edges(d), LAMBDA e : e.target = n)
_outgoing_edges(d, n) == SelectSeq(dag_edges(d), LAMBDA e : e.source = n)

SeqToSet(s) == {s[i] : i \in 1..Len(s)}

\* self._back_edges of __init__: the back-edges, in edge order
_back_edges(d) ==
    LET back == _detect_back_edges(d)
    IN  SelectSeq(d.edges, LAMBDA e : e.id \in back)

RECURSIVE ForwardFrom(_, _, _)
\* the first stack loop of _identify_loop_body: everything reachable over
\* outgoing DAG edges from the nodes of frontier
ForwardFrom(d, frontier, forward) ==
    LET new == frontier \ forward
    IN  IF new = {} THEN forward
        ELSE ForwardFrom(d,
                 {e.target : e \in {x \in SeqToSet(dag_edges(d)) : x.source \in new}},
                 forward \cup new)

RECURSIVE BackwardFrom(_, _, _, _)
\* the second stack loop of _identify_loop_body: everything that reaches
\* frontier over incoming DAG edges without passing through the loop node
BackwardFrom(d, loop_node_id, frontier, backward) ==
    LET new == (frontier \ backward) \ {loop_node_id}
    IN  IF new = {} THEN backward
        ELSE BackwardFrom(d, loop_node_id,
                 {e.source : e \in {x \in SeqToSet(dag_edges(d)) : x.target \in new}},
                 backward \cup new)

\* WorkflowEngine._identify_loop_body
_identify_loop_body(d, loop_node_id, back_edge_source) ==
    ForwardFrom(d, {e.target : e \in SeqToSet(_outgoing_edges(d, loop_node_id))}, {})
        \cap BackwardFrom(d, loop_node_id, {back_edge_source}, {})

\* loop_back_edges of _run_loop_node: the back-edges that target node n
loop_back_edges(d, n) == SelectSeq(_back_edges(d), LAMBDA e : e.target = n)

\* loop_body_ids of _run_graph_loop (lines 1024-1027)
loop_body_ids(d, n) ==
    UNION {_identify_loop_body(d, n, e.source) : e \in SeqToSet(loop_back_edges(d, n))}

\* the orders in which iterating over a set of ids may enumerate it
Orderings(S) ==
    {o \in [1..Cardinality(S) -> S] :
        \A i \in 1..Cardinality(S) : \A j \in 1..Cardinality(S) :
            i # j => o[i] # o[j]}

\* sub_def of _run_graph_loop (lines 1036-1044): the body nodes, in the order
\* the set loop_body_ids is iterated, and the edges between them that are
\* not back-edges, in edge order
SubDefinitions(d, n) ==
    LET body == loop_body_ids(d, n)
        back_edge_ids == _detect_back_edges(d)
        body_edges == SelectSeq(d.edges, LAMBDA e : /\ e.source \in body
                                                    /\ e.target \in body
                                                    /\ e.id \notin back_edge_ids)
    IN  {[nodes |-> [i \in 1..Len(o) |->
                        CHOOSE x \in SeqToSet(d.nodes) : x.id = o[i]],
          edges |-> body_edges] : o \in Orderings(body)}

RECURSIVE KahnLevels(_, _)
\* one generation of Kahn's algorithm per level, nodes in declaration order
KahnLevels(d, placed) ==
    LET ids == [i \in 1..Len(d.nodes) |-> d.nodes[i].id]
        isReady(n) == /\ n \notin placed
                      /\ \A e \in SeqToSet(dag_edges(d)) :
                            e.target = n => e.source \in placed
        ready == SelectSeq(ids, isReady)
    IN  IF ready = << >> THEN << >>
        ELSE <<ready>> \o KahnLevels(d, placed \cup SeqToSet(ready))

\* PipelineExecutor.topological_levels() over the cycle-free definition
topological_levels(d) == KahnLevels(d, {})

(***************************************************************************)
(* The workflows the engine is run on                                      *)
(***************************************************************************)
\* retry/error settings a workflow author can put on a node (data keys
\* retryCount, retryDelay, onError, fallbackValue)
RetryConfigs ==
    [retryCount : (-1)..MaxRetryCount,
     retryDelay : {0, 3},
     onError : {"stop", "skip", "fallback"},
     fallbackValue : {<<"fb">>}]

\* input -> agent -> output
SeqFlow(cfg) ==
    WorkflowDefinition(
        << WorkflowNode("A", "input", [defaultValue |-> <<"hello">>]),
           WorkflowNode("B", "agent", cfg),
           WorkflowNode("C", "output", [label |-> ""]) >>,
        << WorkflowEdge("e1", "A", "B", ""),
           WorkflowEdge("e2", "B", "C", "") >>)

\* input fans out to an agent and a tool, both feeding an aggregator
ParFlow(cfg) ==
    WorkflowDefinition(
        << WorkflowNode("I", "input", [defaultValue |-> <<"x">>]),
           WorkflowNode("L", "agent", cfg),
           WorkflowNode("R", "tool", [label |-> ""]),
           WorkflowNode("G", "aggregator", [label |-> ""]) >>,
        << WorkflowEdge("e1", "I", "L", ""),
           WorkflowEdge("e2", "I", "R", ""),
           WorkflowEdge("e3", "L", "G", ""),
           WorkflowEdge("e4", "R", "G", "") >>)

\* condition with a true branch, a two-node false branch and a join
CondFlow ==
    WorkflowDefinition(
        << WorkflowNode("I", "input", [defaultValue |-> <<"READY">>]),
           WorkflowNode("C", "condition",
                        [conditionType |-> "contains",
                         conditionValue |-> <<"Ready">>]),
           WorkflowNode("T", "output", [label |-> ""]),
           WorkflowNode("F", "output", [label |-> ""]),
           WorkflowNode("F2", "output", [label |-> ""]),
           WorkflowNode("J", "output", [label |-> ""]) >>,
        << WorkflowEdge("e1", "I", "C", ""),
           WorkflowEdge("e2", "C", "T", " True "),
           WorkflowEdge("e3", "C", "F", "false"),
           WorkflowEdge("e4", "F", "F2", ""),
           WorkflowEdge("e5", "T", "J", ""),
           WorkflowEdge("e6", "F2", "J", "") >>)

\* a variable written by one root and referenced in the output of another
VarFlow(cfg) ==
    WorkflowDefinition(
        << WorkflowNode("A", "agent", cfg @@ [setVariable |-> "x"]),
           WorkflowNode("B", "input", [defaultValue |-> <<"{var:x}">>]),
           WorkflowNode("C", "output", [label |-> ""]) >>,
        << WorkflowEdge("e1", "B", "C", "") >>)

\* a condition and a retried agent running in parallel at one level
BranchFlow ==
    WorkflowDefinition(
        << WorkflowNode("I", "input", [defaultValue |-> <<"ready">>]),
           WorkflowNode("S", "condition",
                        [conditionType |-> "not_contains",
                         conditionValue |-> <<"ready">>]),
           WorkflowNode("V", "agent", [retryCount |-> 1, onError |-> "skip"]),
           WorkflowNode("P", "output", [label |-> ""]),
           WorkflowNode("Q", "output", [label |-> ""]),
           WorkflowNode("X", "output", [label |-> ""]) >>,
        << WorkflowEdge("e1", "I", "S", ""),
           WorkflowEdge("e2", "I", "V", ""),
           WorkflowEdge("e3", "S", "P", "true"),
           WorkflowEdge("e4", "S", "Q", "False"),
           WorkflowEdge("e5", "V", "X", ""),
           WorkflowEdge("e6", "V", "Q", "") >>)

\* settings a workflow author can put on a loop node; exitValue is a str or,
\* entered as a JSON number, an int
LoopConfigs ==
    [maxIterations : 0..MaxIterations,
     exitConditionType : {"keyword", "always", "no_change"},
     exitValue : {[kind |-> "str", text |-> <<"OK">>],
                  [kind |-> "str", text |-> <<"APPROVED">>],
                  [kind |-> "int", text |-> <<"8">>]}]

\* a graph-level loop: L drives the body B -> E (back-edge E -> L), and E
\* also feeds an output outside the loop
LoopFlow(cfg) ==
    WorkflowDefinition(
        << WorkflowNode("I", "input", [defaultValue |-> <<"hello">>]),
           WorkflowNode("L", "loop", cfg),
           WorkflowNode("B", "agent", [label |-> ""]),
           WorkflowNode("E", "output", [label |-> ""]),
           WorkflowNode("O", "output", [label |-> ""]) >>,
        << WorkflowEdge("e1", "I", "L", ""),
           WorkflowEdge("e2", "L", "B", ""),
           WorkflowEdge("e3", "B", "E", ""),
           WorkflowEdge("e4", "E", "L", ""),
           WorkflowEdge("e5", "E", "O", "") >>)

\* a variable written before a graph-level loop and referenced inside its
\* body: W writes x, L drives the body G -> E (back-edge E -> L), and the
\* aggregator G produces the text "{var:x}" for E
VarLoopFlow ==
    WorkflowDefinition(
        << WorkflowNode("W", "input", [defaultValue |-> <<"v">>, setVariable |-> "x"]),
           WorkflowNode("L", "loop",
                        [maxIterations |-> 1,
                         exitConditionType |-> "always",
                         exitValue |-> [kind |-> "str", text |-> <<"OK">>]]),
           WorkflowNode("G", "aggregator",
                        [strategy |-> "custom", customTemplate |-> <<"{var:x}">>]),
           WorkflowNode("E", "output", [label |-> ""]) >>,
        << WorkflowEdge("e1", "W", "L", ""),
           WorkflowEdge("e2", "L", "G", ""),
           WorkflowEdge("e3", "G", "E", ""),
           WorkflowEdge("e4", "E", "L", "") >>)

\* what a workflow author can put on a text input node
InputConfigs ==
    [defaultValue : {EmptyStr, <<"hello">>},
     source : {"", "src"},
     label : {"", "in"}]

\* a workflow that consists only of an input node with an edge to an output
\* node
InputOutputFlow(cfg) ==
    WorkflowDefinition(
        << WorkflowNode("I", "input", cfg),
           WorkflowNode("O", "output", [label |-> ""]) >>,
        << WorkflowEdge("e1", "I", "O", "") >>)

\* branching and loop nodes that run in parallel at one level: the
\* conditions C1 (true) and C2 (false) share the targets T and F, and the
\* loops L1 and L2, which do not iterate, own the bodies B1 and B2
ParBranchFlow ==
    WorkflowDefinition(
        << WorkflowNode("I", "input", [defaultValue |-> <<"hello">>]),
           WorkflowNode("C1", "condition",
                        [conditionType |-> "contains",
                         conditionValue |-> <<"hello">>]),
           WorkflowNode("C2", "condition",
                        [conditionType |-> "not_contains",
                         conditionValue |-> <<"hello">>]),
           WorkflowNode("L1", "loop", [maxIterations |-> 0]),
           WorkflowNode("L2", "loop", [maxIterations |-> 0]),
           WorkflowNode("T", "output", [label |-> ""]),
           WorkflowNode("F", "output", [label |-> ""]),
           WorkflowNode("B1", "output", [label |-> ""]),
           WorkflowNode("B2", "output", [label |-> ""]) >>,
        << WorkflowEdge("e1", "I", "C1", ""),
           WorkflowEdge("e2", "I", "C2", ""),
           WorkflowEdge("e3", "I", "L1", ""),
           WorkflowEdge("e4", "I", "L2", ""),
           WorkflowEdge("e5", "C1", "T", "true"),
           WorkflowEdge("e6", "C1", "F", "false"),
           WorkflowEdge("e7", "C2", "T", "true"),
           WorkflowEdge("e8", "C2", "F", "false"),
           WorkflowEdge("e9", "L1", "B1", ""),
           WorkflowEdge("e10", "B1", "L1", ""),
           WorkflowEdge("e11", "L2", "B2", ""),
           WorkflowEdge("e12", "B2", "L2", "") >>)

\* a workflow with an edge from or to an id that no node declares: I -> O
\* and one more edge source -> target
BadEdgeFlow(source, target) ==
    WorkflowDefinition(
        << WorkflowNode("I", "input", [defaultValue |-> <<"hello">>]),
           WorkflowNode("O", "output", [label |-> ""]) >>,
        << WorkflowEdge("e1", "I", "O", ""),
           WorkflowEdge("e2", source, target, "") >>)

\* a text of 501 characters, one character per token
LongText == [i \in 1..501 |-> "a"]

\* an input whose default value is longer than the 500 characters that a
\* workflow_status event keeps of a result, followed by an agent
LongFlow ==
    WorkflowDefinition(
        << WorkflowNode("I", "input", [defaultValue |-> LongText]),
           WorkflowNode("B", "agent", [label |-> ""]),
           WorkflowNode("O", "output", [label |-> ""]) >>,
        << WorkflowEdge("e1", "I", "B", ""),
           WorkflowEdge("e2", "B", "O", "") >>)

\* two nodes of one level of a loop body that write the same variable: L
\* drives the body P -> T, Q -> T, T -> E (back-edge E -> L); P and Q both
\* write x, T produces the text "{var:x}" and E reads it
RaceLoopFlow ==
    WorkflowDefinition(
        << WorkflowNode("L", "loop",
                        [maxIterations |-> 1,
                         exitConditionType |-> "always",
                         exitValue |-> [kind |-> "str", text |-> <<"OK">>]]),
           WorkflowNode("P", "aggregator",
                        [strategy |-> "custom", customTemplate |-> <<"p">>,
                         setVariable |-> "x"]),
           WorkflowNode("Q", "aggregator",
                        [strategy |-> "custom", customTemplate |-> <<"q">>,
                         setVariable |-> "x"]),
           WorkflowNode("T", "aggregator",
                        [strategy |-> "custom", customTemplate |-> <<"{var:x}">>]),
           WorkflowNode("E", "output", [label |-> ""]) >>,
        << WorkflowEdge("e1", "L", "P", ""),
           WorkflowEdge("e2", "L", "Q", ""),
           WorkflowEdge("e3", "P", "T", ""),
           WorkflowEdge("e4", "Q", "T", ""),
           WorkflowEdge("e5", "T", "E", ""),
           WorkflowEdge("e6", "E", "L", "") >>)

\* a graph-level loop behind a condition, with a condition inside its body:
\* L drives the body K -> E, K -> F -> E (back-edge E -> L)
CondLoopFlow ==
    WorkflowDefinition(
        << WorkflowNode("I", "input", [defaultValue |-> <<"hello">>]),
           WorkflowNode("C", "condition",
                        [conditionType |-> "contains",
                         conditionValue |-> <<"hello">>]),
           WorkflowNode("X", "output", [label |-> ""]),
           WorkflowNode("L", "loop",
                        [maxIterations |-> 1, exitConditionType |-> "always"]),
           WorkflowNode("K", "condition",
                        [conditionType |-> "contains",
                         conditionValue |-> <<"hello">>]),
           WorkflowNode("F", "output", [label |-> ""]),
           WorkflowNode("E", "agent", [label |-> ""]) >>,
        << WorkflowEdge("e1", "I", "C", ""),
           WorkflowEdge("e2", "C", "L", "true"),
           WorkflowEdge("e3", "C", "X", "false"),
           WorkflowEdge("e4", "L", "K", ""),
           WorkflowEdge("e5", "K", "E", "true"),
           WorkflowEdge("e6", "K", "F", "false"),
           WorkflowEdge("e7", "F", "E", ""),
           WorkflowEdge("e8", "E", "L", "") >>)

\* settings a workflow author can put on a meta_agent node besides its
\* workflowDefinition
MetaConfigs == {[maxDepth |-> 0], [maxDepth |-> 1], [maxDepth |-> 2],
                [label |-> ""]}

\* the innermost sub-workflow: input -> agent -> output
InnerFlow ==
    WorkflowDefinition(
        << WorkflowNode("P", "input", [defaultValue |-> <<"deep">>]),
           WorkflowNode("Q", "agent", [label |-> ""]),
           WorkflowNode("R", "output", [label |-> ""]) >>,
        << WorkflowEdge("e1", "P", "Q", ""),
           WorkflowEdge("e2", "Q", "R", "") >>)

\* data of a meta_agent node: cfg and the nested definition
MetaData(cfg, sub_definition) ==
    [k \in DOMAIN cfg \cup {"workflowDefinition"} |->
        IF k = "workflowDefinition" THEN sub_definition ELSE cfg[k]]

\* a sub-workflow with a meta_agent of its own: meta_agent -> output
MiddleFlow(cfg) ==
    WorkflowDefinition(
        << WorkflowNode("N", "meta_agent", MetaData(cfg, InnerFlow)),
           WorkflowNode("Z", "output", [label |-> ""]) >>,
        << WorkflowEdge("e1", "N", "Z", "") >>)

\* input -> meta_agent -> output, with two nested sub-workflows; the
\* meta_agent retries once
MetaFlow(cfg, sub_cfg) ==
    WorkflowDefinition(
        << WorkflowNode("I", "input", [defaultValue |-> <<"hello">>]),
           WorkflowNode("M", "meta_agent",
                        MetaData([k \in DOMAIN cfg \cup {"retryCount"} |->
                                     IF k = "retryCount" THEN 1 ELSE cfg[k]],
                                 MiddleFlow(sub_cfg))),
           WorkflowNode("O", "output", [label |-> ""]) >>,
        << WorkflowEdge("e1", "I", "M", ""),
           WorkflowEdge("e2", "M", "O", "") >>)

\* a meta_agent without workflowDefinition
BareMetaFlow ==
    WorkflowDefinition(
        << WorkflowNode("I", "input", [defaultValue |-> <<"hello">>]),
           WorkflowNode("M", "meta_agent", [label |-> ""]) >>,
        << WorkflowEdge("e1", "I", "M", "") >>)

\* settings of an agent node that streams: with and without fallbackModel
StreamConfigs ==
    {[label |-> ""], [fallbackModel |-> "model-b"], [fallbackModel |-> ""],
     [fallback_model |-> "model-b"]}

\* input -> agent -> output, the agent configured for streaming
AgentFlow(cfg) ==
    WorkflowDefinition(
        << WorkflowNode("I", "input", [defaultValue |-> <<"hello">>]),
           WorkflowNode("B", "agent", cfg),
           WorkflowNode("O", "output", [label |-> ""]) >>,
        << WorkflowEdge("e1", "I", "B", ""),
           WorkflowEdge("e2", "B", "O", "") >>)

\* the texts given to a chunker, one token per character
ChunkerInputs == {<<"x">>, <<"x", "y", "z">>}

\* input -> chunker -> output, windows of two characters without overlap
ChunkerFlow(text) ==
    WorkflowDefinition(
        << WorkflowNode("I", "input", [defaultValue |-> text]),
           WorkflowNode("B", "chunker", [chunkSize |-> 2, overlap |-> 0]),
           WorkflowNode("O", "output", [label |-> ""]) >>,
        << WorkflowEdge("e1", "I", "B", ""),
           WorkflowEdge("e2", "B", "O", "") >>)

\* the workflows whose streaming handlers are followed token by token
StreamDefinitions ==
    {AgentFlow(c) : c \in StreamConfigs} \cup {ChunkerFlow(t) : t \in ChunkerInputs}

\* settings of a loop node that exits on a score: exitValue not configured,
\* a number entered as str or as JSON number, or the empty str
ScoreConfigs ==
    {[maxIterations |-> MaxIterations, exitConditionType |-> "score"]}
    \cup {[maxIterations |-> MaxIterations, exitConditionType |-> "score",
           exitValue |-> v] :
              v \in {[kind |-> "str", text |-> <<"8">>],
                     [kind |-> "int", text |-> <<"8">>],
                     [kind |-> "str", text |-> EmptyStr]}}

\* texts the exit node of a score loop produces
ScoreTexts == {<<"score", "9">>, <<"9", "5">>, <<"8">>, <<"none">>}

\* a graph-level loop whose body is the single output node E, which hands on
\* the text it is given (back-edge E -> L)
ScoreFlow(cfg, text) ==
    WorkflowDefinition(
        << WorkflowNode("I", "input", [defaultValue |-> text]),
           WorkflowNode("L", "loop", cfg),
           WorkflowNode("E", "output", [label |-> ""]) >>,
        << WorkflowEdge("e1", "I", "L", ""),
           WorkflowEdge("e2", "L", "E", ""),
           WorkflowEdge("e3", "E", "L", "") >>)

\* a graph-level loop inside the body of another: the back-edge B -> L2
\* closes the inner loop, the back-edge B -> L1 the outer one
NestedLoopFlow ==
    WorkflowDefinition(
        << WorkflowNode("I", "input", [defaultValue |-> <<"hello">>]),
           WorkflowNode("L1", "loop",
                        [maxIterations |-> 1, exitConditionType |-> "always"]),
           WorkflowNode("L2", "loop",
                        [maxIterations |-> 1, exitConditionType |-> "always"]),
           WorkflowNode("B", "output", [label |-> ""]) >>,
        << WorkflowEdge("e1", "I", "L1", ""),
           WorkflowEdge("e2", "L1", "L2", ""),
           WorkflowEdge("e3", "L2", "B", ""),
           WorkflowEdge("e4", "B", "L2", ""),
           WorkflowEdge("e5", "B", "L1", "") >>)

\* the definitions given to WorkflowEngine: those whose nodes pass the
\* validation of WorkflowNode.type
WorkflowDefinitions ==
    {d \in {SeqFlow(c) : c \in RetryConfigs} \cup {ParFlow(c) : c \in RetryConfigs}
            \cup {VarFlow(c) : c \in RetryConfigs} \cup {CondFlow, BranchFlow}
            \cup {LoopFlow(c) : c \in LoopConfigs} \cup {CondLoopFlow, VarLoopFlow, RaceLoopFlow, LongFlow}
            \cup {BadEdgeFlow("I", "Z"), BadEdgeFlow("Z", "O"), ParBranchFlow}
            \cup {InputOutputFlow(c) : c \in InputConfigs}
            \cup {MetaFlow(c, sc) : c \in MetaConfigs,
                                    sc \in {[maxDepth |-> 1], [label |-> ""]}}
            \cup {BareMetaFlow, NestedLoopFlow}
            \cup {ScoreFlow(c, t) : c \in ScoreConfigs, t \in ScoreTexts} :
        \A i \in 1..Len(d.nodes) : d.nodes[i].type \in NodeType}

\* initial_input values given to run()
InitialInputs == {EmptyStr, <<"no">>}

\* timeout values given to run(): 0 disables the timeout
Timeouts == {0, 300}

\* what an agent or tool adapter returns when it does not raise
AdapterOutputs == {<<"ok">>}

\* int(data.get("maxDepth", 3)) and int(data.get("_currentDepth", 0))
max_depth(data) == DataGet(data, "maxDepth", 3)
current_depth(data) == DataGet(data, "_currentDepth", 0)

\* _run_meta_agent_node gets as far as building a sub-engine (lines
\* 1124-1138): the node has a workflowDefinition (a mapping, in the
\* workflows above) and its depth is below its maxDepth
SpawnsSubEngine(data) ==
    /\ "workflowDefinition" \in DOMAIN data
    /\ current_depth(data) < max_depth(data)

\* sub_def of _run_meta_agent_node (lines 1134-1143): the nested definition
\* with _currentDepth = current_depth + 1 written into its meta_agent nodes
MetaSubDefinition(data) ==
    LET sub_definition == data["workflowDefinition"]
    IN  WorkflowDefinition(
            [i \in 1..Len(sub_definition.nodes) |->
                LET sub_node == sub_definition.nodes[i]
                IN  IF sub_node.type = "meta_agent"
                    THEN [sub_node EXCEPT !.data =
                              [k \in DOMAIN sub_node.data \cup {"_currentDepth"} |->
                                  IF k = "_currentDepth" THEN current_depth(data) + 1
                                  ELSE sub_node.data[k]]]
                    ELSE sub_node],
            sub_definition.edges)

\* the sub-workflows the meta_agent nodes of definition d can start
MetaSubDefinitions(d) ==
    {MetaSubDefinition(d.nodes[i].data) :
        i \in {j \in 1..Len(d.nodes) : /\ d.nodes[j].type = "meta_agent"
                                       /\ SpawnsSubEngine(d.nodes[j].data)}}

RECURSIVE MetaClosure(_)
\* D and every sub-workflow reachable from D through meta_agent nodes
MetaClosure(D) ==
    LET new == UNION {MetaSubDefinitions(d) : d \in D} \ D
    IN  IF new = {} THEN D ELSE MetaClosure(D \cup new)

\* the definitions the engines of a run are built from: the workflow, the
\* sub-workflows of its graph-level loops and those of its meta_agent nodes
EngineDefinitions ==
    MetaClosure(WorkflowDefinitions
                \cup UNION {UNION {SubDefinitions(d, n) : n \in NodeIds(d)} :
                                d \in WorkflowDefinitions})
        \cup StreamDefinitions

\* the engine's per-definition analysis, computed once in __init__
Analysis ==
    [d \in EngineDefinitions |->
        [dag |-> dag_edges(d),
         loop_back |-> [n \in NodeIds(d) |-> loop_back_edges(d, n)],
         body |-> [n \in NodeIds(d) |-> loop_body_ids(d, n)],
         sub_defs |-> [n \in NodeIds(d) |-> SubDefinitions(d, n)],
         levels |-> topological_levels(d),
         incoming |-> [n \in NodeIds(d) |-> _incoming_edges(d, n)],
         outgoing |-> [n \in NodeIds(d) |-> _outgoing_edges(d, n)]]]

(***************************************************************************)
(* State of one engine run                                                 *)
(***************************************************************************)
VARIABLES
    definition,         \* self.definition (immutable)
    analysis,           \* what __init__ derives from the definition: the
                        \* back-edges, the edge maps and the executor's levels
    initial_input,      \* run(initial_input=...)
    timeout,            \* run(timeout=...)
    run_state,          \* "created", "running", "returned" or "raised"
    pc,                 \* where run()/_run_inner is suspended or about to go
    level_idx,          \* position of  for level in levels
    filter_idx,         \* position of  for node_id in level
    active_nodes,       \* active_nodes of the current level
    has_error,          \* has_error of the parallel branch
    status,             \* self._status.status
    error,              \* self._status.error (EmptyStr is None)
    node_statuses,      \* self._status.node_statuses
    results,            \* self._results
    status_results,     \* self._status.results
    blocked_edges,      \* self._blocked_edges
    skip_nodes,         \* self._skip_nodes
    variables,          \* self._variables
    task,               \* per node: state of its _execute_with_retry call
    attempt,            \* per node: attempt of _execute_with_retry
    outcomes,           \* per node of the level: what its _execute_with_retry
                        \* produced (result / e of the inline branch, the
                        \* outcomes list of the parallel branch)
    calls,              \* per node: number of _execute_node invocations
    raises,             \* per node: how many of those invocations raised
    node_input,         \* per node: node_input of its last _execute_node
    waits,              \* per node: arguments of the backoff sleeps so far
    last_error,         \* per node: last_error of its _execute_with_retry
                        \* ("" is None)
    last_event,         \* << >> or <<e>>, e the last workflow_status delivered
    broadcast_failures, \* how many broadcast calls have raised
    parent,             \* the engines that await the running one, innermost
                        \* first: each is the state of an engine whose loop or
                        \* meta_agent node awaits the sub-engine it started
    driver,             \* locals of the _run_graph_loop or _run_meta_agent_node
                        \* call in progress in the engine that is running;
                        \* sub_runs counts its sub_engine.run() calls
    clock,              \* time.monotonic() in milliseconds
    last_stream_time,   \* self._last_stream_time: node id -> milliseconds
    stream_events,      \* the node_streaming events delivered so far, each
                        \* with the time and the place it was sent from
    call,               \* locals of the streaming handler call in progress
                        \* (_run_agent_node or _run_chunker_node)
    history             \* what is remembered across the runs of one workflow:
                        \* first is << >> or <<r>>, r the results and node
                        \* statuses an earlier run of it ended with, and
                        \* adapter_raised tells whether an adapter has raised

vars == <<definition, analysis, initial_input, timeout, run_state, pc, level_idx,
          filter_idx, active_nodes, has_error, status, error, node_statuses,
          results, status_results, blocked_edges, skip_nodes, variables,
          task, attempt, outcomes, calls, raises, node_input, waits,
          last_error, last_event, broadcast_failures, parent, driver,
          clock, last_stream_time, stream_events, call, history>>

\* the state of token streaming
stream_vars == <<clock, last_stream_time, stream_events, call>>

\* the engine state a streaming handler leaves alone
engine_vars == <<definition, analysis, initial_input, timeout, run_state, pc,
                 level_idx, filter_idx, active_nodes, has_error, status,
                 error, node_statuses, results, status_results,
                 blocked_edges, skip_nodes, variables, task, attempt,
                 outcomes, calls, raises, node_input, waits, last_error,
                 parent, driver, history>>

Nodes == NodeIds(definition)
levels == analysis.levels
incoming(n) == analysis.incoming[n]
outgoing(n) == analysis.outgoing[n]
nodeData(n) == NodeOf(definition, n).data
nodeType(n) == NodeOf(definition, n).type

EmptyMap == [x \in {} |-> EmptyStr]

\* dict[key] = value
MapSet(m, k, v) == [x \in DOMAIN m \cup {k} |-> IF x = k THEN v ELSE m[x]]

\* dict.get(key, default)
MapGet(m, k, default) == IF k \in DOMAIN m THEN m[k] ELSE default

\* no _run_graph_loop call is in progress
NoDriver == [pc |-> "idle"]

\* the engine state a node that awaits a sub-engine comes back to
Frame ==
    [definition |-> definition, analysis |-> analysis,
     initial_input |-> initial_input,
     timeout |-> timeout, run_state |-> run_state, pc |-> pc,
     level_idx |-> level_idx, filter_idx |-> filter_idx,
     active_nodes |-> active_nodes, has_error |-> has_error,
     status |-> status, error |-> error, node_statuses |-> node_statuses,
     results |-> results, status_results |-> status_results,
     blocked_edges |-> blocked_edges, skip_nodes |-> skip_nodes,
     variables |-> variables, task |-> task, attempt |-> attempt,
     outcomes |-> outcomes, calls |-> calls, raises |-> raises,
     node_input |-> node_input, waits |-> waits, last_error |-> last_error]

\* a fresh engine is built over sub_def and its run(initial_input=input)
\* goes up to its first await (lines 31-75, 156-176)
EngineInit(sub_def, input) ==
    /\ definition' = sub_def
    /\ analysis' = Analysis[sub_def]
    /\ node_statuses' = [n \in NodeIds(sub_def) |-> "waiting"]
    /\ task' = [n \in NodeIds(sub_def) |-> "idle"]
    /\ attempt' = [n \in NodeIds(sub_def) |-> 0]
    /\ calls' = [n \in NodeIds(sub_def) |-> 0]
    /\ raises' = [n \in NodeIds(sub_def) |-> 0]
    /\ node_input' = [n \in NodeIds(sub_def) |-> EmptyStr]
    /\ waits' = [n \in NodeIds(sub_def) |-> << >>]
    /\ last_error' = [n \in NodeIds(sub_def) |-> ""]
    /\ initial_input' = input
    /\ timeout' = 0
    /\ run_state' = "running"
    /\ status' = "running"
    /\ pc' = "emit_running"
    /\ level_idx' = 0
    /\ filter_idx' = 0
    /\ active_nodes' = << >>
    /\ has_error' = FALSE
    /\ error' = EmptyStr
    /\ results' = EmptyMap
    /\ status_results' = EmptyMap
    /\ blocked_edges' = {}
    /\ skip_nodes' = {}
    /\ variables' = EmptyMap
    /\ outcomes' = EmptyMap

\* WorkflowEngine.__init__ followed by the arguments of run()
\* time.monotonic() when the run starts: the uptime of the machine
StartClock == 1000

\* self._last_stream_time = {}
NoTimes == [x \in {} |-> 0]

\* no streaming handler is being followed
NoCall == [pc |-> "idle"]

\* the workflow has not been run before, no adapter has raised, no loop node
\* has run in internal mode and no graph-level loop has iterated; executed
\* maps a loop node to the last iteration its driver ran, produced maps a
\* body node to the iteration its stored result comes from
NoHistory == [first |-> << >>, adapter_raised |-> FALSE, internal |-> {},
              produced |-> EmptyMap, executed |-> EmptyMap]

Init ==
    /\ definition \in WorkflowDefinitions
    /\ analysis = Analysis[definition]
    /\ initial_input \in InitialInputs
    /\ timeout \in Timeouts
    /\ run_state = "created"
    /\ pc = "start"
    /\ level_idx = 0
    /\ filter_idx = 0
    /\ active_nodes = << >>
    /\ has_error = FALSE
    /\ status = "pending"
    /\ error = EmptyStr
    /\ node_statuses = [n \in NodeIds(definition) |-> "waiting"]
    /\ results = EmptyMap
    /\ status_results = EmptyMap
    /\ blocked_edges = {}
    /\ skip_nodes = {}
    /\ variables = EmptyMap
    /\ task = [n \in NodeIds(definition) |-> "idle"]
    /\ attempt = [n \in NodeIds(definition) |-> 0]
    /\ outcomes = EmptyMap
    /\ calls = [n \in NodeIds(definition) |-> 0]
    /\ raises = [n \in NodeIds(definition) |-> 0]
    /\ node_input = [n \in NodeIds(definition) |-> EmptyStr]
    /\ waits = [n \in NodeIds(definition) |-> << >>]
    /\ last_error = [n \in NodeIds(definition) |-> ""]
    /\ last_event = << >>
    /\ broadcast_failures = 0
    /\ parent = << >>
    /\ driver = NoDriver
    /\ clock = StartClock
    /\ last_stream_time = NoTimes
    /\ stream_events = << >>
    /\ call = NoCall
    /\ history = NoHistory

(***************************************************************************)
(* Input collection and variable substitution                              *)
(***************************************************************************)
\* blocked_edges overwritten instead of extended
AddBlockedReplace(ids) == ids

\* self._blocked_edges.add(edge.id) for every id of ids
AddBlocked(ids) == blocked_edges \cup ids

\* the e.id not in self._blocked_edges filter over an edge list
Unblocked(edges) == SelectSeq(edges, LAMBDA e : e.id \notin blocked_edges)

\* _collect_input without the blocked-edge filter
_collect_input_all(n) ==
    LET inc == incoming(n)
        parts == [i \in 1..Len(inc) |-> MapGet(results, inc[i].source, EmptyStr)]
    IN  IF inc = << >> THEN initial_input ELSE Join(Separator, parts)

\* WorkflowEngine._collect_input
_collect_input(n) ==
    LET inc == incoming(n)
        active_sources == [i \in 1..Len(Unblocked(inc)) |-> Unblocked(inc)[i].source]
        parts == [i \in 1..Len(active_sources) |->
                    MapGet(results, active_sources[i], EmptyStr)]
    IN  IF inc = << >> THEN initial_input
        ELSE IF active_sources = << >> THEN initial_input
        ELSE Join(Separator, parts)

\* group(1) of the regex  \{var:(\w+)\}  on one token ("" when no match)
VarName(t) ==
    CASE t = "{var:x}" -> "x"
      [] t = "{var:y}" -> "y"
      [] OTHER -> ""

RECURSIVE SubstituteFrom(_, _)
\* re.sub with _replacer from position i on: the text up to the next token
\* that names a stored variable stays, that token becomes the variable's
\* value, and the substitution goes on behind it
SubstituteFrom(text, i) ==
    LET matches == {j \in i..Len(text) :
                       /\ VarName(text[j]) # ""
                       /\ VarName(text[j]) \in DOMAIN variables}
    IN  IF matches = {} THEN SubSeq(text, i, Len(text))
        ELSE LET j == CHOOSE m \in matches : \A o \in matches : m <= o
             IN  SubSeq(text, i, j - 1) \o variables[VarName(text[j])]
                     \o SubstituteFrom(text, j + 1)

\* WorkflowEngine._substitute_variables
_substitute_variables(text) == SubstituteFrom(text, 1)

(***************************************************************************)
(* Retry settings of a node (head of _execute_with_retry)                  *)
(***************************************************************************)
retry_count(n) == IntOr(DataGet(nodeData(n), "retryCount", 0), 0)
retry_delay(n) == IntOr(DataGet(nodeData(n), "retryDelay", 2), 2)
on_error(n) == StrOr(DataGet(nodeData(n), "onError", "stop"), "stop")
fallback_value(n) == TextOr(DataGet(nodeData(n), "fallbackValue", EmptyStr), EmptyStr)

SkippedAfterRetries == <<"[skipped: error after retries]">>

\* the exception an adapter (agent, tool) raises
AdapterError == "adapter error"
\* the TypeError of  raise last_error  when last_error is None
RaiseNoneError == "exceptions must derive from BaseException"
\* the exception a failing broadcast callback raises
BroadcastError == "broadcast error"

(***************************************************************************)
(* Synchronous handlers of _execute_node                                   *)
(***************************************************************************)
\* a str configuration value used as text
StrText(v) == IF v = "" THEN EmptyStr ELSE <<v>>

\* input node that prefers its configured default to the input it is given
RunInputNodeDefaultFirst(n, input) ==
    LET d == nodeData(n)
        default == DataGet(d, "defaultValue", EmptyStr)
    IN  TextOr(default, TextOr(input,
            TextOr(StrText(DataGet(d, "source", "")),
                   StrText(DataGet(d, "label", "")))))

\* input node without fileId or database query
RunInputNode(n, input) ==
    LET d == nodeData(n)
        default == DataGet(d, "defaultValue", EmptyStr)
    IN  TextOr(input, TextOr(default,
            TextOr(StrText(DataGet(d, "source", "")),
                   StrText(DataGet(d, "label", "")))))

\* template.replace("{inputs}", combined)
ReplaceInputs(template, combined) ==
    LET pieces == [i \in 1..Len(template) |->
                     IF template[i] = "{inputs}" THEN combined ELSE <<template[i]>>]
    IN  Join(EmptyStr, pieces)

\* WorkflowEngine._run_aggregator_node
_run_aggregator_node(n) ==
    LET d == nodeData(n)
        strategy == DataGet(d, "strategy", "concatenate")
        separator == DataGet(d, "separator", Separator)
        srcs == Unblocked(incoming(n))
        parts == [i \in 1..Len(srcs) |-> MapGet(results, srcs[i].source, EmptyStr)]
    IN  IF strategy = "custom"
        THEN ReplaceInputs(DataGet(d, "customTemplate", <<"{inputs}">>),
                           Join(separator, parts))
        ELSE Join(separator, parts)

\* WorkflowEngine._evaluate_condition (the score_threshold, keyword and regex
\* kinds are not used by the workflows above and are not modelled)
_evaluate_condition(n, input) ==
    LET d == nodeData(n)
        cond_type == DataGet(d, "conditionType", "contains")
        cond_value == DataGet(d, "conditionValue", EmptyStr)
    IN  CASE cond_type = "contains" -> Contains(Lower(cond_value), Lower(input))
          [] cond_type = "not_contains" -> ~Contains(Lower(cond_value), Lower(input))
          [] OTHER -> TRUE

\* edge.label.strip().lower()
NormLabel(e) == LowerToken(StripToken(e.label))

EdgeIds(edges) == {edges[i].id : i \in 1..Len(edges)}

\* a condition node that blocks the edges of the branch taken
ConditionBlocksTaken(n, input) ==
    LET result == _evaluate_condition(n, input)
    IN  {e.id : e \in {x \in SeqToSet(outgoing(n)) :
                        \/ result /\ NormLabel(x) = "true"
                        \/ ~result /\ NormLabel(x) = "false"}}

\* edges a condition node adds to blocked_edges (_run_condition_node)
ConditionBlocks(n, input) ==
    LET result == _evaluate_condition(n, input)
    IN  {e.id : e \in {x \in SeqToSet(outgoing(n)) :
                        \/ result /\ NormLabel(x) = "false"
                        \/ ~result /\ NormLabel(x) = "true"}}

\* node types whose handler suspends on an external adapter (the handlers
\* of loop nodes without back-edge are not part of the workflows above)
AsyncTypes == {"agent", "tool", "chunker"}

\* what _run_meta_agent_node returns without building a sub-engine (lines
\* 1127-1132)
MetaRefusal(data) ==
    IF "workflowDefinition" \notin DOMAIN data
    THEN <<"[Meta-Agent: no sub-workflow definition configured]">>
    ELSE <<"[Meta-Agent: max recursion depth (", IntText(max_depth(data)),
           ") reached]">>

\* result of a handler that completes without suspending; the internal
\* generate/critique loop of a loop node with maxIterations <= 0 returns
\* gen_content = "" (lines 986-987, 1011)
SyncResult(n, input) ==
    CASE nodeType(n) = "input" -> RunInputNode(n, input)
      [] nodeType(n) = "aggregator" -> _run_aggregator_node(n)
      [] nodeType(n) = "meta_agent" -> MetaRefusal(nodeData(n))
      [] nodeType(n) = "loop" -> EmptyStr
      [] OTHER -> input

\* edges a handler that completes without suspending adds to blocked_edges
SyncBlocks(n, input) ==
    CASE nodeType(n) = "condition" -> ConditionBlocks(n, input)
      [] OTHER -> {}

(***************************************************************************)
(* Broadcasting (_emit)                                                    *)
(***************************************************************************)
\* characters of a result kept in a non-final workflow_status event
ResultPreview == 500

\* str(v)[:500]
Truncate(text) ==
    SubSeq(text, 1, IF Len(text) < ResultPreview THEN Len(text) ELSE ResultPreview)

\* the payload _emit hands to the broadcast callback
StatusEvent(full_results) ==
    [type |-> "workflow_status",
     status |-> status,
     node_statuses |-> node_statuses,
     results |-> IF full_results THEN status_results
                 ELSE [k \in DOMAIN status_results |-> Truncate(status_results[k])],
     error |-> error]

\* positions of _run_inner / run suspended in  await self._emit()
EmitPcs == {"emit_running", "emit_skipped", "emit_marked", "emit_single_ok",
            "emit_single_err", "emit_gathered", "emit_level_err",
            "emit_completed", "emit_timeout"}

\* the node executed inline by the single-node branch
single_node == active_nodes[1]

(***************************************************************************)
(* run() and _run_inner                                                    *)
(***************************************************************************)
\* run() is called: _run_inner sets status running and emits (lines 175-176)
RunStart ==
    /\ UNCHANGED <<stream_vars, history>>
    /\ pc = "start"
    /\ run_state' = "running"
    /\ status' = "running"
    /\ pc' = "emit_running"
    /\ UNCHANGED <<definition, analysis, initial_input, timeout, level_idx, filter_idx,
                   active_nodes, has_error, error, node_statuses, results,
                   status_results, blocked_edges, skip_nodes, variables, task,
                   attempt, outcomes, calls, raises, node_input, waits, last_event,
                   broadcast_failures,
                   parent, driver, last_error>>

\* an  await self._emit()  whose broadcast callback returns
EmitDelivered ==
    /\ UNCHANGED <<stream_vars, history>>
    /\ pc \in EmitPcs
    /\ last_event' = <<StatusEvent(pc = "emit_completed")>>
    /\ CASE pc = "emit_running" ->
              /\ pc' = "filter" /\ level_idx' = 1 /\ filter_idx' = 1
              /\ active_nodes' = << >>
              /\ UNCHANGED <<status, run_state>>
         [] pc = "emit_skipped" ->
              /\ pc' = "filter"
              /\ UNCHANGED <<level_idx, filter_idx, active_nodes, status, run_state>>
         [] pc = "emit_marked" ->
              /\ pc' = "sleep"
              /\ UNCHANGED <<level_idx, filter_idx, active_nodes, status, run_state>>
         [] pc = "emit_single_ok" \/ (pc = "emit_gathered" /\ ~has_error) ->
              /\ pc' = "filter" /\ level_idx' = level_idx + 1 /\ filter_idx' = 1
              /\ active_nodes' = << >>
              /\ UNCHANGED <<status, run_state>>
         [] pc = "emit_gathered" /\ has_error ->
              /\ status' = "error"
              /\ pc' = "emit_level_err"
              /\ UNCHANGED <<level_idx, filter_idx, active_nodes, run_state>>
         [] pc \in {"emit_single_err", "emit_level_err", "emit_completed",
                    "emit_timeout"} ->
              /\ pc' = "done" /\ run_state' = "returned"
              /\ UNCHANGED <<level_idx, filter_idx, active_nodes, status>>
    /\ UNCHANGED <<definition, analysis, initial_input, timeout, has_error, error,
                   node_statuses, results, status_results, blocked_edges,
                   skip_nodes, variables, task, attempt, outcomes, calls, raises,
                   node_input, waits, broadcast_failures,
                   parent, driver, last_error>>

\* an  await self._emit()  whose broadcast callback raises: the emit after a
\* successful inline node is inside the try of lines 209-218 and lands in its
\* except clause; every other one propagates out of run()
EmitRaises ==
    /\ UNCHANGED <<stream_vars, history>>
    /\ pc \in EmitPcs
    /\ broadcast_failures < MaxBroadcastFailures
    /\ broadcast_failures' = broadcast_failures + 1
    /\ IF pc = "emit_single_ok"
       THEN /\ node_statuses' = [node_statuses EXCEPT ![single_node] = "error"]
            /\ error' = <<"Node", single_node, BroadcastError>>
            /\ status' = "error"
            /\ pc' = "emit_single_err"
            /\ UNCHANGED run_state
       ELSE /\ pc' = "done"
            /\ run_state' = "raised"
            /\ UNCHANGED <<node_statuses, error, status>>
    /\ UNCHANGED <<definition, analysis, initial_input, timeout, level_idx, filter_idx,
                   active_nodes, has_error, results, status_results,
                   blocked_edges, skip_nodes, variables, task, attempt,
                   outcomes, calls, raises, node_input, waits, last_event,
                   parent, driver, last_error>>

\* the  for level in levels  loop is exhausted (lines 258-259)
LevelsDone ==
    /\ UNCHANGED <<stream_vars, history>>
    /\ pc = "filter"
    /\ level_idx > Len(levels)
    /\ status' = "completed"
    /\ pc' = "emit_completed"
    /\ UNCHANGED <<definition, analysis, initial_input, timeout, run_state, level_idx,
                   filter_idx, active_nodes, has_error, error, node_statuses,
                   results, status_results, blocked_edges, skip_nodes,
                   variables, task, attempt, outcomes, calls, raises, node_input,
                   waits, last_event, broadcast_failures,
                   parent, driver, last_error>>

\* incoming and all(e.id in self._blocked_edges for e in incoming) (line 187)
AllIncomingBlocked(n) ==
    /\ incoming(n) # << >>
    /\ \A e \in SeqToSet(incoming(n)) : e.id \in blocked_edges

\* a branch-skipped node that blocks none of its out-edges
SkipBlocksNone(n) == {}

\* the edges a branch-skipped node blocks: all its out-edges (lines 191-192)
SkipBlocks(n) == EdgeIds(outgoing(n))

\* one iteration of the filter loop (lines 183-195)
FilterNode ==
    /\ UNCHANGED <<stream_vars, history>>
    /\ pc = "filter"
    /\ level_idx <= Len(levels)
    /\ filter_idx <= Len(levels[level_idx])
    /\ LET n == levels[level_idx][filter_idx]
       IN  /\ filter_idx' = filter_idx + 1
           /\ IF n \in skip_nodes
              THEN UNCHANGED <<pc, active_nodes, results, status_results,
                               node_statuses, blocked_edges>>
              ELSE IF AllIncomingBlocked(n)
              THEN /\ results' = MapSet(results, n, EmptyStr)
                   /\ status_results' = MapSet(status_results, n, <<"[skipped]">>)
                   /\ node_statuses' = [node_statuses EXCEPT ![n] = "done"]
                   /\ blocked_edges' = AddBlocked(SkipBlocks(n))
                   /\ pc' = "emit_skipped"
                   /\ UNCHANGED active_nodes
              ELSE /\ active_nodes' = Append(active_nodes, n)
                   /\ UNCHANGED <<pc, results, status_results, node_statuses,
                                  blocked_edges>>
    /\ UNCHANGED <<definition, analysis, initial_input, timeout, run_state, level_idx,
                   has_error, status, error, skip_nodes, variables, task,
                   attempt, outcomes, calls, raises, node_input, waits, last_event,
                   broadcast_failures,
                   parent, driver, last_error>>

\* end of the filter loop: no active node -> continue (lines 197-198);
\* otherwise mark every active node RUNNING and emit (lines 201-203)
FilterEnd ==
    /\ UNCHANGED <<stream_vars, history>>
    /\ pc = "filter"
    /\ level_idx <= Len(levels)
    /\ filter_idx > Len(levels[level_idx])
    /\ IF active_nodes = << >>
       THEN /\ level_idx' = level_idx + 1
            /\ filter_idx' = 1
            /\ UNCHANGED <<pc, node_statuses>>
       ELSE /\ node_statuses' = [n \in Nodes |->
                                   IF n \in SeqToSet(active_nodes) THEN "running"
                                   ELSE node_statuses[n]]
            /\ pc' = "emit_marked"
            /\ UNCHANGED <<level_idx, filter_idx>>
    /\ UNCHANGED <<definition, analysis, initial_input, timeout, run_state, active_nodes,
                   has_error, status, error, results, status_results,
                   blocked_edges, skip_nodes, variables, task, attempt,
                   outcomes, calls, raises, node_input, waits, last_event,
                   broadcast_failures,
                   parent, driver, last_error>>

\* asyncio.sleep(0.3) returns (line 204): one active node is executed inline,
\* several are handed to asyncio.gather (lines 207, 234)
Dispatch ==
    /\ UNCHANGED <<stream_vars, history>>
    /\ pc = "sleep"
    /\ pc' = IF Len(active_nodes) = 1 THEN "single" ELSE "gather"
    /\ task' = [n \in Nodes |->
                  IF n \in SeqToSet(active_nodes) THEN "ready" ELSE task[n]]
    /\ outcomes' = EmptyMap
    /\ UNCHANGED <<definition, analysis, initial_input, timeout, run_state, level_idx,
                   filter_idx, active_nodes, has_error, status, error,
                   node_statuses, results, status_results, blocked_edges,
                   skip_nodes, variables, attempt, calls, raises,
                   node_input, waits, last_event, broadcast_failures,
                   parent, driver, last_error>>

(***************************************************************************)
(* _execute_with_retry and what the scheduler does with its outcome        *)
(***************************************************************************)
\* _execute_with_retry of node n is over, returning value (ok) or raising an
\* exception with message value (~ok).  Inline (lines 210-223) the outcome is
\* recorded before the next await; under gather, _run_one hands it to gather
\* (lines 227-232).
WrapperDone(n, ok, value) ==
    /\ task' = [task EXCEPT ![n] = "finished"]
    /\ outcomes' = MapSet(outcomes, n, [ok |-> ok, value |-> value])
    /\ IF pc = "single"
       THEN IF ok
            THEN /\ results' = MapSet(results, n, value)
                 /\ status_results' = MapSet(status_results, n, value)
                 /\ node_statuses' = [node_statuses EXCEPT ![n] = "done"]
                 /\ variables' =
                      LET var_name == DataGet(nodeData(n), "setVariable", "")
                      IN  IF var_name # "" THEN MapSet(variables, var_name, value)
                          ELSE variables
                 /\ pc' = "emit_single_ok"
                 /\ UNCHANGED <<error, status>>
            ELSE /\ node_statuses' = [node_statuses EXCEPT ![n] = "error"]
                 /\ error' = <<"Node", n>> \o value
                 /\ status' = "error"
                 /\ pc' = "emit_single_err"
                 /\ UNCHANGED <<results, status_results, variables>>
       ELSE UNCHANGED <<pc, results, status_results, node_statuses,
                        variables, error, status>>

\* "All retries exhausted" (lines 282-288)
Exhausted(n, exc) ==
    IF on_error(n) = "skip" THEN WrapperDone(n, TRUE, SkippedAfterRetries)
    ELSE IF on_error(n) = "fallback" THEN WrapperDone(n, TRUE, fallback_value(n))
    ELSE WrapperDone(n, FALSE, exc)

\* node n is being executed by the current level
Executing(n) ==
    /\ run_state = "running"
    /\ \/ pc = "single" /\ n = single_node
       \/ pc = "gather" /\ n \in SeqToSet(active_nodes)

\* position of n in active_nodes
ActivePos(n) == CHOOSE i \in 1..Len(active_nodes) : active_nodes[i] = n

\* the handler of node n raises exc into _execute_with_retry (lines 273-280):
\* sleep and retry while attempt < retry_count, else the attempts are
\* exhausted
RaiseInHandler(n, exc) ==
    /\ raises' = [raises EXCEPT ![n] = @ + 1]
    /\ last_error' = [last_error EXCEPT ![n] = exc]
    /\ IF attempt[n] < retry_count(n)
       THEN /\ task' = [task EXCEPT ![n] = "backoff"]
            /\ waits' = [waits EXCEPT ![n] = Append(@, retry_delay(n) * (attempt[n] + 1))]
            /\ UNCHANGED <<pc, results, status_results, node_statuses,
                           variables, error, status, outcomes>>
       ELSE /\ Exhausted(n, <<exc>>)
            /\ UNCHANGED waits

\* the loop node n is targeted by a back-edge (line 961)
IsGraphLoop(n) ==
    nodeType(n) = "loop" /\ analysis.loop_back[n] # << >>

\* int(_get(data, "maxIterations", "max_iterations", 3))
max_iter(n) == DataGet(nodeData(n), "maxIterations", 3)

\* the head of _run_graph_loop without  self._skip_nodes.update(loop_body_ids)
StartGraphLoopNoSkip(n, input) ==
    LET body == analysis.body[n] IN
    IF body = {}
    THEN /\ WrapperDone(n, TRUE, input)
         /\ UNCHANGED <<skip_nodes, driver>>
    ELSE /\ pc = "single"
         /\ skip_nodes' = skip_nodes
         /\ task' = [task EXCEPT ![n] = "driving"]
         /\ driver' = [pc |-> IF max_iter(n) > 0 THEN "progress" ELSE "return",
                       node |-> n,
                       loop_body_ids |-> body,
                       exit_node_id |-> analysis.loop_back[n][1].source,
                       iteration |-> 0,
                       sub_runs |-> 0,
                       current_input |-> input,
                       exit_result |-> EmptyStr,
                       transcript_parts |-> << >>]
         /\ node_statuses' = IF max_iter(n) > 0 THEN node_statuses
                             ELSE [m \in Nodes |-> IF m \in body THEN "done"
                                                   ELSE node_statuses[m]]
         /\ UNCHANGED <<pc, results, status_results, variables, error, status,
                        outcomes>>

\* head of _run_graph_loop (lines 1024-1051), up to the first await of the
\* iteration loop, or up to the return when the loop does not iterate
StartGraphLoop(n, input) ==
    LET body == analysis.body[n] IN
    IF body = {}
    THEN /\ WrapperDone(n, TRUE, input)
         /\ UNCHANGED <<skip_nodes, driver>>
    ELSE IF pc = "gather"
    THEN \* among the loop nodes of a parallel level the workflows above have
         \* only loops that do not iterate: the handler runs lines 1024-1033
         \* and 1111-1116 without suspending
         /\ max_iter(n) <= 0
         /\ skip_nodes' = skip_nodes \cup body
         /\ node_statuses' = [m \in Nodes |-> IF m \in body THEN "done"
                                               ELSE node_statuses[m]]
         /\ task' = [task EXCEPT ![n] = "finished"]
         /\ outcomes' = MapSet(outcomes, n,
                               [ok |-> TRUE, value |-> Join(<<"\n\n">>, << >>)])
         /\ UNCHANGED <<pc, results, status_results, variables, error, status,
                        driver>>
    ELSE /\ pc = "single"
         /\ skip_nodes' = skip_nodes \cup body
         /\ task' = [task EXCEPT ![n] = "driving"]
         /\ driver' = [pc |-> IF max_iter(n) > 0 THEN "progress" ELSE "return",
                       node |-> n,
                       loop_body_ids |-> body,
                       exit_node_id |-> analysis.loop_back[n][1].source,
                       iteration |-> 0,
                       sub_runs |-> 0,
                       current_input |-> input,
                       exit_result |-> EmptyStr,
                       transcript_parts |-> << >>]
         /\ node_statuses' = IF max_iter(n) > 0 THEN node_statuses
                             ELSE [m \in Nodes |-> IF m \in body THEN "done"
                                                   ELSE node_statuses[m]]
         /\ UNCHANGED <<pc, results, status_results, variables, error, status,
                        outcomes>>

\* _run_meta_agent_node builds a sub-engine over the nested definition and
\* awaits its run(initial_input=input_text) (lines 1134-1151); the engine of
\* node n waits in the frame until that run ends
StartMetaAgent(n) ==
    LET input == _substitute_variables(_collect_input(n))
        f == [Frame EXCEPT
                !.task[n] = "meta",
                !.attempt[n] = IF task[n] = "ready" THEN 0 ELSE @ + 1,
                !.calls[n] = @ + 1,
                !.node_input[n] = input,
                !.last_error[n] = IF task[n] = "ready" THEN "" ELSE @]
    IN  /\ pc = "single"
        /\ parent' = <<f>> \o parent
        /\ EngineInit(MetaSubDefinition(nodeData(n)), input)
        /\ UNCHANGED <<last_event, broadcast_failures, driver>>

\* _run_loop_node takes the internal generate/critique branch for node n:
\* no back-edge of this engine targets it (lines 959-966)
RunsInternalLoop(n) == nodeType(n) = "loop" /\ ~IsGraphLoop(n)

\* the handler of node n suspends on an external adapter; the rounds of an
\* internal generate/critique loop are one suspension, which ends with the
\* generator output or with the exception of an agent
Suspends(n) ==
    \/ nodeType(n) \in AsyncTypes
    \/ RunsInternalLoop(n) /\ max_iter(n) > 0

\* _execute_with_retry enters its loop, or resumes it after a backoff sleep:
\* the next attempt calls _execute_node, which collects the input and runs
\* the handler up to its first suspension (lines 270-272, 290-346).  gather
\* starts its coroutines in the order of active_nodes.
BeginAttempt(n) ==
    /\ UNCHANGED stream_vars
    /\ history' = IF /\ RunsInternalLoop(n)
                     /\ ~(task[n] = "ready" /\ retry_count(n) + 1 <= 0)
                  THEN [history EXCEPT !.internal = @ \cup {n}]
                  ELSE history
    /\ Executing(n)
    /\ task[n] \in {"ready", "backoff"}
    /\ (pc = "gather" /\ task[n] = "ready") =>
          \A i \in 1..(ActivePos(n) - 1) : task[active_nodes[i]] # "ready"
    /\ IF /\ nodeType(n) = "meta_agent"
          /\ SpawnsSubEngine(nodeData(n))
          /\ ~(task[n] = "ready" /\ retry_count(n) + 1 <= 0)
       THEN StartMetaAgent(n)
       ELSE
        /\ last_error' = IF task[n] = "ready" THEN [last_error EXCEPT ![n] = ""]
                         ELSE last_error
        /\ IF task[n] = "ready" /\ retry_count(n) + 1 <= 0
           THEN /\ Exhausted(n, <<RaiseNoneError>>)
                /\ UNCHANGED <<attempt, calls, node_input, blocked_edges,
                               skip_nodes, driver>>
           ELSE LET input == _substitute_variables(_collect_input(n)) IN
                /\ attempt' = [attempt EXCEPT ![n] = IF task[n] = "ready" THEN 0 ELSE @ + 1]
                /\ calls' = [calls EXCEPT ![n] = @ + 1]
                /\ node_input' = [node_input EXCEPT ![n] = input]
                /\ IF IsGraphLoop(n)
                   THEN /\ StartGraphLoop(n, input)
                        /\ UNCHANGED blocked_edges
                   ELSE IF Suspends(n)
                   THEN /\ task' = [task EXCEPT ![n] = "inflight"]
                        /\ UNCHANGED <<pc, results, status_results, node_statuses,
                                       variables, error, status, outcomes,
                                       blocked_edges, skip_nodes, driver>>
                   ELSE /\ blocked_edges' = AddBlocked(SyncBlocks(n, input))
                        /\ WrapperDone(n, TRUE, SyncResult(n, input))
                        /\ UNCHANGED <<skip_nodes, driver>>
        /\ UNCHANGED <<definition, analysis, initial_input, timeout, run_state, level_idx,
                       filter_idx, active_nodes, has_error, raises,
                       waits, last_event, broadcast_failures, parent>>

\* the adapter a suspended handler waits for returns
HandlerReturns(n) ==
    /\ UNCHANGED <<stream_vars, history>>
    /\ Executing(n)
    /\ task[n] = "inflight"
    /\ \E v \in AdapterOutputs : WrapperDone(n, TRUE, v)
    /\ UNCHANGED blocked_edges
    /\ UNCHANGED <<definition, analysis, initial_input, timeout, run_state, level_idx,
                   filter_idx, active_nodes, has_error, skip_nodes, attempt,
                   calls, raises, node_input, waits, last_event, broadcast_failures,
                   parent, driver, last_error>>

\* the adapter a suspended handler waits for raises
HandlerRaises(n) ==
    /\ UNCHANGED stream_vars
    /\ history' = [history EXCEPT !.adapter_raised = TRUE]
    /\ Executing(n)
    /\ task[n] = "inflight"
    /\ RaiseInHandler(n, AdapterError)
    /\ UNCHANGED <<definition, analysis, initial_input, timeout, run_state, level_idx,
                   filter_idx, active_nodes, has_error, skip_nodes, attempt,
                   calls, node_input, blocked_edges, last_event,
                   broadcast_failures, parent, driver>>

RECURSIVE ProcessOutcomes(_, _)
\* the  for nid, result in outcomes  loop (lines 238-250) from position i;
\* st carries the fields the loop writes
ProcessOutcomes(i, st) ==
    IF i > Len(active_nodes) THEN st
    ELSE LET nid == active_nodes[i]
             result == outcomes[nid]
             var_name == DataGet(nodeData(nid), "setVariable", "")
         IN  IF ~result.ok
             THEN ProcessOutcomes(i + 1,
                    [st EXCEPT !.node_statuses[nid] = "error",
                               !.error = <<"Node", nid>> \o result.value,
                               !.has_error = TRUE])
             ELSE ProcessOutcomes(i + 1,
                    [st EXCEPT !.results = MapSet(@, nid, result.value),
                               !.status_results = MapSet(@, nid, result.value),
                               !.node_statuses[nid] = "done",
                               !.variables = IF var_name # ""
                                             THEN MapSet(@, var_name, result.value)
                                             ELSE @])

\* a gather that returns as soon as one _run_one has returned
GatherDoneEarly ==
    /\ UNCHANGED <<stream_vars, history>>
    /\ run_state = "running"
    /\ pc = "gather"
    /\ \E n \in SeqToSet(active_nodes) : task[n] = "finished"
    /\ LET ok == {n \in DOMAIN outcomes : outcomes[n].ok}
           failed == DOMAIN outcomes \ ok
       IN  /\ results' = [n \in DOMAIN results \cup ok |->
                            IF n \in ok THEN outcomes[n].value ELSE results[n]]
           /\ status_results' = [n \in DOMAIN status_results \cup ok |->
                                   IF n \in ok THEN outcomes[n].value
                                   ELSE status_results[n]]
           /\ node_statuses' = [n \in Nodes |->
                                  IF n \in ok THEN "done"
                                  ELSE IF n \in failed THEN "error"
                                  ELSE node_statuses[n]]
           /\ has_error' = (failed # {})
    /\ pc' = "emit_gathered"
    /\ UNCHANGED <<definition, analysis, initial_input, timeout, run_state, level_idx,
                   filter_idx, active_nodes, status, error, variables,
                   blocked_edges, skip_nodes, task, attempt, outcomes, calls,
                   raises, node_input, waits, last_event, broadcast_failures,
                   parent, driver, last_error>>

\* asyncio.gather returns once every _run_one has returned (lines 234-252)
GatherDone ==
    /\ UNCHANGED <<stream_vars, history>>
    /\ run_state = "running"
    /\ pc = "gather"
    /\ \A n \in SeqToSet(active_nodes) : task[n] = "finished"
    /\ LET st == ProcessOutcomes(1, [results |-> results,
                                     status_results |-> status_results,
                                     node_statuses |-> node_statuses,
                                     variables |-> variables,
                                     error |-> error,
                                     has_error |-> FALSE])
       IN  /\ results' = st.results
           /\ status_results' = st.status_results
           /\ node_statuses' = st.node_statuses
           /\ variables' = st.variables
           /\ error' = st.error
           /\ has_error' = st.has_error
    /\ pc' = "emit_gathered"
    /\ UNCHANGED <<definition, analysis, initial_input, timeout, run_state, level_idx,
                   filter_idx, active_nodes, status, blocked_edges, skip_nodes,
                   task, attempt, outcomes, calls, raises, node_input, waits,
                   last_event, broadcast_failures,
                   parent, driver, last_error>>

(***************************************************************************)
(* Graph-level loop driver (_run_graph_loop) and its sub-engines           *)
(***************************************************************************)
\* f"loop {iteration + 1}/{max_iter}"
LoopLabel(iteration, m) == "loop " \o IntText(iteration + 1) \o "/" \o IntText(m)

\* f"**--- Round {iteration + 1} ---**\n\n"
RoundHeader(iteration) == "**--- Round " \o IntText(iteration + 1) \o " ---**\n\n"

\* the AttributeError of  exit_value.upper()  on an int
AttributeError == "'int' object has no attribute 'upper'"

\* the handler of the inline node, a _run_graph_loop or a
\* _run_meta_agent_node, is at position p
DriverAt(p) ==
    /\ driver.pc = p
    /\ run_state = "running"
    /\ pc = "single"
    /\ task[single_node] \in {"driving", "meta"}

\* the driver's progress broadcast returns (lines 1055-1063); the body nodes
\* are reset to RUNNING and the driver emits (lines 1066-1068)
LoopProgressDelivered ==
    /\ UNCHANGED <<stream_vars, history>>
    /\ DriverAt("progress")
    /\ last_event' = <<[type |-> "workflow_status",
                        status |-> "running",
                        node_statuses |->
                            [n \in {driver.node} |->
                                LoopLabel(driver.iteration, max_iter(driver.node))],
                        results |-> EmptyMap,
                        error |-> EmptyStr]>>
    /\ node_statuses' = [n \in Nodes |->
                           IF n \in driver.loop_body_ids THEN "running"
                           ELSE node_statuses[n]]
    /\ driver' = [driver EXCEPT !.pc = "emit_reset"]
    /\ UNCHANGED <<definition, analysis, initial_input, timeout, run_state, pc, level_idx,
                   filter_idx, active_nodes, has_error, status, error, results,
                   status_results, blocked_edges, skip_nodes, variables, task,
                   attempt, outcomes, calls, raises, node_input, waits,
                   last_error, broadcast_failures, parent>>

\* the emit of line 1068 returns; a fresh sub-engine is built over the
\* sub-workflow and its run(initial_input=current_input) goes up to its
\* first await (lines 1071-1076, 173-176)
LoopResetDelivered ==
    /\ UNCHANGED <<stream_vars, history>>
    /\ DriverAt("emit_reset")
    /\ last_event' = <<StatusEvent(FALSE)>>
    /\ parent' = <<Frame>> \o parent
    /\ driver' = [driver EXCEPT !.pc = "sub_run", !.sub_runs = @ + 1]
    /\ \E sub_def \in analysis.sub_defs[driver.node] :
         EngineInit(sub_def, driver.current_input)
    /\ UNCHANGED broadcast_failures

\* what the node that awaits the running sub-engine is: "driving" for a loop
\* node, "meta" for a meta_agent node
AwaitedBy == parent[1].task[parent[1].active_nodes[1]]

\* every engine variable goes back to the value saved in frame f, except
\* those named in the set changed
Restore(f, changed) ==
    /\ definition' = f.definition
    /\ analysis' = f.analysis
    /\ initial_input' = f.initial_input
    /\ timeout' = f.timeout
    /\ run_state' = f.run_state
    /\ level_idx' = f.level_idx
    /\ filter_idx' = f.filter_idx
    /\ active_nodes' = f.active_nodes
    /\ has_error' = f.has_error
    /\ blocked_edges' = f.blocked_edges
    /\ skip_nodes' = f.skip_nodes
    /\ variables' = f.variables
    /\ attempt' = f.attempt
    /\ outcomes' = f.outcomes
    /\ calls' = f.calls
    /\ raises' = f.raises
    /\ node_input' = f.node_input
    /\ waits' = f.waits
    /\ last_error' = f.last_error
    /\ IF "pc" \in changed THEN TRUE ELSE pc' = f.pc
    /\ IF "status" \in changed THEN TRUE
       ELSE status' = f.status /\ error' = f.error
    /\ IF "task" \in changed THEN TRUE ELSE task' = f.task
    /\ IF "results" \in changed THEN TRUE
       ELSE /\ results' = f.results
            /\ status_results' = f.status_results
    /\ IF "node_statuses" \in changed THEN TRUE
       ELSE node_statuses' = f.node_statuses

\* sub_engine.run() returns its results map (line 1076); the driver copies it
\* into the engine's results, marks those nodes DONE and records the round
\* (lines 1079-1086), then emits (line 1088)
SubReturns ==
    /\ UNCHANGED stream_vars
    /\ parent # << >>
    /\ AwaitedBy = "driving"
    /\ pc = "done"
    /\ run_state = "returned"
    /\ LET f == parent[1]
           exit_result == MapGet(results, driver.exit_node_id, EmptyStr)
       IN  /\ Restore(f, {"results", "node_statuses"})
           /\ results' = [k \in DOMAIN f.results \cup DOMAIN results |->
                            IF k \in DOMAIN results THEN results[k]
                            ELSE f.results[k]]
           /\ status_results' =
                  [k \in DOMAIN f.status_results \cup DOMAIN results |->
                      IF k \in DOMAIN results THEN results[k]
                      ELSE f.status_results[k]]
           /\ node_statuses' = [n \in DOMAIN f.node_statuses |->
                                  IF n \in DOMAIN results THEN "done"
                                  ELSE f.node_statuses[n]]
           /\ driver' = [driver EXCEPT
                           !.pc = "emit_round",
                           !.exit_result = exit_result,
                           !.transcript_parts =
                               Append(@, <<RoundHeader(driver.iteration)>>
                                           \o exit_result)]
    /\ history' = [history EXCEPT
                     !.executed = MapSet(@, driver.node, driver.iteration),
                     !.produced = [k \in DOMAIN @ \cup DOMAIN results |->
                                     IF k \in DOMAIN results THEN driver.iteration
                                     ELSE @[k]]]
    /\ parent' = Tail(parent)
    /\ UNCHANGED <<last_event, broadcast_failures>>

\* sub_engine.run() raises (a broadcast failure that _run_inner does not
\* catch): the exception arrives in the driver at line 1076
SubRaises ==
    /\ UNCHANGED <<stream_vars, history>>
    /\ parent # << >>
    /\ AwaitedBy = "driving"
    /\ pc = "done"
    /\ run_state = "raised"
    /\ Restore(parent[1], {})
    /\ driver' = [driver EXCEPT !.pc = "sub_raised"]
    /\ parent' = Tail(parent)
    /\ UNCHANGED <<last_event, broadcast_failures>>

\* the exception of sub_engine.run() leaves _run_graph_loop or
\* _run_meta_agent_node and the handler
LoopSubRaised ==
    /\ UNCHANGED <<stream_vars, history>>
    /\ DriverAt("sub_raised")
    /\ RaiseInHandler(driver.node, BroadcastError)
    /\ driver' = NoDriver
    /\ UNCHANGED <<definition, analysis, initial_input, timeout, run_state, level_idx,
                   filter_idx, active_nodes, has_error, skip_nodes, attempt,
                   calls, node_input, blocked_edges, last_event,
                   broadcast_failures, parent>>

RECURSIVE ResultKeysFrom(_)
\* the keys of self._results in insertion order, from level k on: level by
\* level, the nodes skipped by the filter loop (line 188) before the nodes
\* that ran (lines 211, 245); the engine has no graph-level loop
ResultKeysFrom(k) ==
    IF k > Len(levels) THEN << >>
    ELSE SelectSeq(levels[k], LAMBDA n : n \in DOMAIN results /\ calls[n] = 0)
         \o SelectSeq(levels[k], LAMBDA n : n \in DOMAIN results /\ calls[n] > 0)
         \o ResultKeysFrom(k + 1)

\* what _run_meta_agent_node returns after the run of its sub-engine (lines
\* 1153-1163): the results of the output nodes, or else all results
MetaAgentResult ==
    LET outs == SelectSeq(definition.nodes,
                          LAMBDA n : n.type = "output" /\ n.id \in DOMAIN results)
        keys == ResultKeysFrom(1)
    IN  IF outs # << >>
        THEN Join(Separator, [i \in 1..Len(outs) |-> results[outs[i].id]])
        ELSE Join(Separator, [i \in 1..Len(keys) |-> results[keys[i]]])

\* sub_engine.run() returns its results map to _run_meta_agent_node (line
\* 1151), which computes its return value (lines 1153-1163)
MetaSubReturns ==
    /\ UNCHANGED <<stream_vars, history>>
    /\ parent # << >>
    /\ AwaitedBy = "meta"
    /\ pc = "done"
    /\ run_state = "returned"
    /\ Restore(parent[1], {})
    /\ driver' = [pc |-> "meta_return",
                  node |-> parent[1].active_nodes[1],
                  result |-> MetaAgentResult]
    /\ parent' = Tail(parent)
    /\ UNCHANGED <<last_event, broadcast_failures>>

\* sub_engine.run() raises (a broadcast failure that _run_inner does not
\* catch): the exception arrives in _run_meta_agent_node at line 1151
MetaSubRaises ==
    /\ UNCHANGED <<stream_vars, history>>
    /\ parent # << >>
    /\ AwaitedBy = "meta"
    /\ pc = "done"
    /\ run_state = "raised"
    /\ Restore(parent[1], {})
    /\ driver' = [pc |-> "sub_raised", node |-> parent[1].active_nodes[1]]
    /\ parent' = Tail(parent)
    /\ UNCHANGED <<last_event, broadcast_failures>>

\* _run_meta_agent_node returns (lines 1161-1163)
MetaReturns ==
    /\ UNCHANGED <<stream_vars, history>>
    /\ DriverAt("meta_return")
    /\ WrapperDone(driver.node, TRUE, driver.result)
    /\ driver' = NoDriver
    /\ UNCHANGED <<definition, analysis, initial_input, timeout, run_state, level_idx,
                   filter_idx, active_nodes, has_error, skip_nodes, attempt,
                   calls, raises, node_input, waits, blocked_edges, last_error,
                   last_event, broadcast_failures, parent>>

\* float(token) for the tokens that are decimal numbers, -1 for the others
NumberOf(t) ==
    CASE t = "9" -> 9 [] t = "8" -> 8 [] t = "5" -> 5 [] OTHER -> 0 - 1

\* re.findall(r'\b(\d+(?:\.\d+)?)\b', text)
Numbers(text) == SelectSeq(text, LAMBDA t : NumberOf(t) >= 0)

\* the threshold used when exit_value is falsy (line 1104)
DefaultThreshold == 7

\* exit_value is falsy: the empty str or the int 0
Falsy(exit_value) == exit_value.text = EmptyStr \/ exit_value.text = <<"0">>

\* float(exit_value) raises ValueError: exit_value is a str that is no number
FloatRaises(exit_value) ==
    /\ exit_value.kind = "str"
    /\ Len(exit_value.text) # 1 \/ NumberOf(exit_value.text[1]) < 0

\* float(exit_value) if exit_value else 7.0  (line 1104)
threshold(exit_value) ==
    IF Falsy(exit_value) THEN DefaultThreshold ELSE NumberOf(exit_value.text[1])

\* the ValueError of float() on a str that is no number
ValueError == "could not convert string to float"

\* the break test of lines 1091-1107
ExitConditionMet(n, iteration, exit_result, current_input) ==
    LET exit_type == DataGet(nodeData(n), "exitConditionType", "keyword")
        exit_value == DataGet(nodeData(n), "exitValue",
                              [kind |-> "str", text |-> <<"APPROVED">>])
    IN  CASE exit_type = "keyword" ->
               /\ exit_value.text # EmptyStr
               /\ Contains(Upper(exit_value.text), Truncate(Upper(exit_result)))
          [] exit_type = "no_change" ->
               iteration > 0 /\ Strip(exit_result) = Strip(current_input)
          [] exit_type = "score" ->
               /\ Numbers(exit_result) # << >>
               /\ NumberOf(Numbers(exit_result)[Len(Numbers(exit_result))])
                      >= threshold(exit_value)
          [] OTHER -> FALSE

\* exit_value.upper() is evaluated on a value that is not a str (line 1096)
ExitConditionRaises(n) ==
    /\ DataGet(nodeData(n), "exitConditionType", "keyword") = "keyword"
    /\ DataGet(nodeData(n), "exitValue",
               [kind |-> "str", text |-> <<"APPROVED">>]).kind = "int"

\* the exit check of exitConditionType score raises: the exit result holds a
\* number and float(exit_value) rejects exit_value (lines 1100-1104)
ScoreCheckRaises(n, exit_result) ==
    LET exit_value == DataGet(nodeData(n), "exitValue",
                              [kind |-> "str", text |-> <<"APPROVED">>])
    IN  /\ DataGet(nodeData(n), "exitConditionType", "keyword") = "score"
        /\ Numbers(exit_result) # << >>
        /\ ~Falsy(exit_value)
        /\ FloatRaises(exit_value)

\* the exception the exit check raises, "" when it raises none
ExitCheckError(n, exit_result) ==
    IF ExitConditionRaises(n) THEN AttributeError
    ELSE IF ScoreCheckRaises(n, exit_result) THEN ValueError
    ELSE ""

\* the iteration loop without the bound of  range(max_iter)
LoopRoundDeliveredUnbounded ==
    /\ UNCHANGED <<stream_vars, history>>
    /\ DriverAt("emit_round")
    /\ last_event' = <<StatusEvent(FALSE)>>
    /\ LET n == driver.node IN
       IF ExitCheckError(n, driver.exit_result) # ""
       THEN /\ RaiseInHandler(n, ExitCheckError(n, driver.exit_result))
            /\ driver' = NoDriver
       ELSE /\ IF ExitConditionMet(n, driver.iteration, driver.exit_result,
                                    driver.current_input)
               THEN /\ node_statuses' =
                          [m \in Nodes |-> IF m \in driver.loop_body_ids THEN "done"
                                           ELSE node_statuses[m]]
                    /\ driver' = [driver EXCEPT !.pc = "return"]
               ELSE /\ driver' = [driver EXCEPT
                                    !.pc = "progress",
                                    !.iteration = @ + 1,
                                    !.current_input = driver.exit_result]
                    /\ UNCHANGED node_statuses
            /\ UNCHANGED <<pc, results, status_results, variables, error,
                           status, outcomes, task, raises, waits, last_error>>
    /\ UNCHANGED <<definition, analysis, initial_input, timeout, run_state, level_idx,
                   filter_idx, active_nodes, has_error, skip_nodes, attempt,
                   calls, node_input, blocked_edges, broadcast_failures, parent>>

\* the emit of line 1088 returns and the exit condition is checked (lines
\* 1091-1110): the loop breaks or is exhausted and the body nodes are marked
\* DONE (lines 1113-1114), or the next iteration starts
LoopRoundDelivered ==
    /\ UNCHANGED <<stream_vars, history>>
    /\ DriverAt("emit_round")
    /\ last_event' = <<StatusEvent(FALSE)>>
    /\ LET n == driver.node IN
       IF ExitCheckError(n, driver.exit_result) # ""
       THEN /\ RaiseInHandler(n, ExitCheckError(n, driver.exit_result))
            /\ driver' = NoDriver
       ELSE /\ IF \/ ExitConditionMet(n, driver.iteration, driver.exit_result,
                                      driver.current_input)
                  \/ driver.iteration + 1 >= max_iter(n)
               THEN /\ node_statuses' =
                          [m \in Nodes |-> IF m \in driver.loop_body_ids THEN "done"
                                           ELSE node_statuses[m]]
                    /\ driver' = [driver EXCEPT !.pc = "return"]
               ELSE /\ driver' = [driver EXCEPT
                                    !.pc = "progress",
                                    !.iteration = @ + 1,
                                    !.current_input = driver.exit_result]
                    /\ UNCHANGED node_statuses
            /\ UNCHANGED <<pc, results, status_results, variables, error,
                           status, outcomes, task, raises, waits, last_error>>
    /\ UNCHANGED <<definition, analysis, initial_input, timeout, run_state, level_idx,
                   filter_idx, active_nodes, has_error, skip_nodes, attempt,
                   calls, node_input, blocked_edges, broadcast_failures, parent>>

\* a broadcast awaited by the driver raises (lines 1056, 1068, 1088): the
\* exception leaves _run_graph_loop and the handler
LoopBroadcastRaises ==
    /\ UNCHANGED <<stream_vars, history>>
    /\ \/ DriverAt("progress")
       \/ DriverAt("emit_reset")
       \/ DriverAt("emit_round")
    /\ broadcast_failures < MaxBroadcastFailures
    /\ broadcast_failures' = broadcast_failures + 1
    /\ RaiseInHandler(driver.node, BroadcastError)
    /\ driver' = NoDriver
    /\ UNCHANGED <<definition, analysis, initial_input, timeout, run_state, level_idx,
                   filter_idx, active_nodes, has_error, skip_nodes, attempt,
                   calls, node_input, blocked_edges, last_event, parent>>

\* _run_graph_loop returns the transcript (line 1116)
LoopReturns ==
    /\ UNCHANGED <<stream_vars, history>>
    /\ DriverAt("return")
    /\ WrapperDone(driver.node, TRUE, Join(<<"\n\n">>, driver.transcript_parts))
    /\ driver' = NoDriver
    /\ UNCHANGED <<definition, analysis, initial_input, timeout, run_state, level_idx,
                   filter_idx, active_nodes, has_error, skip_nodes, attempt,
                   calls, raises, node_input, waits, blocked_edges, last_error,
                   last_event, broadcast_failures, parent>>

(***************************************************************************)
(* Timeout of run()                                                        *)
(***************************************************************************)
\* f"{timeout}s"
TimeoutText(t) == CASE t = 300 -> "300s" [] OTHER -> "0s"

\* the engine is suspended in an await
Suspended ==
    \/ pc \in EmitPcs \ {"emit_timeout"}
    \/ pc = "sleep"
    \/ pc = "gather"
    \/ pc = "single" /\ task[single_node] \in {"inflight", "backoff"}
    \/ pc = "single" /\ task[single_node] = "driving"
          /\ driver.pc \in {"progress", "emit_reset", "emit_round"}

\* no cancellation reaches the pending tasks
CancelledNone(tasks) == tasks

\* the tasks of a cancelled _run_inner: every pending one is cancelled
Cancelled(tasks) ==
    [n \in DOMAIN tasks |->
        IF tasks[n] \in {"ready", "inflight", "backoff", "driving", "meta"}
        THEN "cancelled" ELSE tasks[n]]

\* asyncio.wait_for times out (lines 161-170): _run_inner and every coroutine
\* it awaits are cancelled, run() reports the error and emits once
Timeout ==
    /\ UNCHANGED <<stream_vars, history>>
    /\ parent = << >>
    /\ timeout > 0
    /\ run_state = "running"
    /\ Suspended
    /\ task' = Cancelled(task)
    /\ status' = "error"
    /\ error' = <<"Workflow timed out after", TimeoutText(timeout)>>
    /\ pc' = "emit_timeout"
    /\ driver' = NoDriver
    /\ UNCHANGED <<definition, analysis, initial_input, timeout, run_state, level_idx,
                   filter_idx, active_nodes, has_error, node_statuses, results,
                   status_results, blocked_edges, skip_nodes, variables,
                   attempt, outcomes, calls, raises, node_input, waits, last_event,
                   broadcast_failures, parent, last_error>>

\* the same timeout while the loop node awaits a sub-engine: the
\* cancellation goes through the sub-engine's await, which is dropped with
\* its engine
OuterTimeout ==
    /\ UNCHANGED <<stream_vars, history>>
    /\ parent # << >>
    /\ parent[Len(parent)].timeout > 0
    /\ run_state = "running"
    /\ Suspended
    /\ Restore(parent[Len(parent)], {"pc", "status", "task"})
    /\ task' = Cancelled(parent[Len(parent)].task)
    /\ status' = "error"
    /\ error' = <<"Workflow timed out after",
                  TimeoutText(parent[Len(parent)].timeout)>>
    /\ pc' = "emit_timeout"
    /\ driver' = NoDriver
    /\ parent' = << >>
    /\ UNCHANGED <<last_event, broadcast_failures>>

AllNodeIds == UNION {NodeIds(d) : d \in EngineDefinitions}

Next ==
    \/ RunStart
    \/ EmitDelivered
    \/ EmitRaises
    \/ LevelsDone
    \/ FilterNode
    \/ FilterEnd
    \/ Dispatch
    \/ \E n \in AllNodeIds : n \in Nodes /\ BeginAttempt(n)
    \/ \E n \in AllNodeIds : n \in Nodes /\ HandlerReturns(n)
    \/ \E n \in AllNodeIds : n \in Nodes /\ HandlerRaises(n)
    \/ GatherDone
    \/ LoopProgressDelivered
    \/ LoopResetDelivered
    \/ SubReturns
    \/ SubRaises
    \/ LoopSubRaised
    \/ LoopRoundDelivered
    \/ LoopBroadcastRaises
    \/ LoopReturns
    \/ MetaSubReturns
    \/ MetaSubRaises
    \/ MetaReturns
    \/ Timeout
    \/ OuterTimeout

Spec == Init /\ [][Next]_vars

(***************************************************************************)
(* The same workflow run a second time                                     *)
(***************************************************************************)
\* a run without timeout, in which no adapter and no broadcast has raised,
\* has returned, and the caller builds a fresh engine over the same
\* definition and runs it with the same initial input (lines 31-75, 156-176)
RunAgain ==
    /\ UNCHANGED stream_vars
    /\ parent = << >>
    /\ run_state = "returned"
    /\ timeout = 0
    /\ broadcast_failures = 0
    /\ history.first = << >>
    /\ ~history.adapter_raised
    /\ history.internal = {}
    /\ history' = [NoHistory EXCEPT
                     !.first = <<[results |-> results,
                                  node_statuses |-> node_statuses]>>]
    /\ EngineInit(definition, initial_input)
    /\ last_event' = << >>
    /\ UNCHANGED <<broadcast_failures, parent, driver>>

RerunNext ==
    \/ Next
    \/ RunAgain

RerunSpec == Init /\ [][RerunNext]_vars

(***************************************************************************)
(* Token streaming: _stream_broadcast, _run_agent_node, _run_chunker_node  *)
(***************************************************************************)
\* most tokens one model stream yields
MaxTokens == 2
\* how many times the clock advances during one handler call
MaxTicks == 3
\* how many times the model adapter raises during one handler call
MaxStreamRaises == 2
\* the time that passes in one step of the clock, in milliseconds
TickMs == 40
\* the throttle of _stream_broadcast: 0.08 s
ThrottleMs == 80

\* the tokens a model adapter yields
StreamTokens == {"a", "b"}

\* _get(data, camel_key, snake_key, default) (lines 19-25)
_get(data, camel_key, snake_key, default) ==
    IF camel_key \in DOMAIN data THEN data[camel_key]
    ELSE IF snake_key \in DOMAIN data THEN data[snake_key]
    ELSE default

\* data.get("model", "claude-sonnet-4-5-20250929")
model(n) == DataGet(nodeData(n), "model", "claude-sonnet-4-5-20250929")

fallback_model(n) == _get(nodeData(n), "fallbackModel", "fallback_model", "")

\* data.get("separator", "\n\n---\n\n") of a chunker node
separator(n) == DataGet(nodeData(n), "separator", Separator)

RECURSIVE SplitFrom(_, _, _, _)
\* the while loop of _split_text, start counted from 0 (overlap < chunk_size)
SplitFrom(text, chunk_size, overlap, start) ==
    IF start >= Len(text) THEN << >>
    ELSE LET end == IF start + chunk_size > Len(text) THEN Len(text)
                    ELSE start + chunk_size
         IN  <<SubSeq(text, start + 1, end)>>
             \o SplitFrom(text, chunk_size, overlap, start + chunk_size - overlap)

_split_text(text, chunk_size, overlap) ==
    IF Len(text) <= chunk_size THEN <<text>>
    ELSE SplitFrom(text, chunk_size, overlap, 0)

\* the locals of the handler of node n when it starts to stream
StartCall(n) ==
    [pc |-> "stream",
     node |-> n,
     model |-> model(n),
     on_fallback |-> FALSE,
     content_parts |-> << >>,
     chunks |-> IF nodeType(n) = "chunker"
                THEN _split_text(node_input[n],
                                 _get(nodeData(n), "chunkSize", "chunk_size", 2000),
                                 _get(nodeData(n), "overlap", "overlap", 200))
                ELSE << >>,
     results |-> << >>,
     raised |-> 0,
     result |-> EmptyStr,
     exc |-> ""]

\* the engine runs the workflow's streaming node B inline, its input node
\* done, and the handler of B starts to stream
StreamInit ==
    /\ definition \in StreamDefinitions
    /\ analysis = Analysis[definition]
    /\ initial_input = EmptyStr
    /\ timeout = 0
    /\ run_state = "running"
    /\ pc = "single"
    /\ level_idx = 2
    /\ filter_idx = 2
    /\ active_nodes = <<"B">>
    /\ has_error = FALSE
    /\ status = "running"
    /\ error = EmptyStr
    /\ node_statuses = [n \in NodeIds(definition) |->
                          CASE n = "I" -> "done" [] n = "B" -> "running"
                            [] OTHER -> "waiting"]
    /\ results = [n \in {"I"} |-> NodeOf(definition, "I").data.defaultValue]
    /\ status_results = results
    /\ blocked_edges = {}
    /\ skip_nodes = {}
    /\ variables = EmptyMap
    /\ task = [n \in NodeIds(definition) |->
                 CASE n = "I" -> "finished" [] n = "B" -> "inflight"
                   [] OTHER -> "idle"]
    /\ attempt = [n \in NodeIds(definition) |-> 0]
    /\ outcomes = EmptyMap
    /\ calls = [n \in NodeIds(definition) |-> IF n = "O" THEN 0 ELSE 1]
    /\ raises = [n \in NodeIds(definition) |-> 0]
    /\ node_input = [n \in NodeIds(definition) |->
                       IF n = "B" THEN results["I"] ELSE EmptyStr]
    /\ waits = [n \in NodeIds(definition) |-> << >>]
    /\ last_error = [n \in NodeIds(definition) |-> ""]
    /\ last_event = <<StatusEvent(FALSE)>>
    /\ broadcast_failures = 0
    /\ parent = << >>
    /\ driver = NoDriver
    /\ clock = StartClock
    /\ last_stream_time = NoTimes
    /\ stream_events = << >>
    /\ call = StartCall("B")
    /\ history = NoHistory

\* the payload of a node_streaming broadcast (lines 517-523, 548-554), with
\* the time it is sent at and the place it is sent from
StreamingEvent(n, chunk, partial, origin) ==
    [type |-> "node_streaming",
     node_id |-> n,
     chunk |-> chunk,
     partial |-> partial,
     at |-> clock,
     origin |-> origin]

\* self._last_stream_time.get(node_id, 0.0)
LastStreamTime(times, n) == IF n \in DOMAIN times THEN times[n] ELSE 0

\* a throttle that lets every event through
ThrottleOff(last) == TRUE

\* not  now - last < 0.08  (line 514)
ThrottlePasses(last) == clock - last >= ThrottleMs

\* _stream_broadcast(node_id, chunk, partial) with a broadcast callback that
\* returns (lines 507-523); times is self._last_stream_time before the call
_stream_broadcast(times, n, chunk, partial, origin) ==
    IF ThrottlePasses(LastStreamTime(times, n))
    THEN /\ last_stream_time' = MapSet(times, n, clock)
         /\ stream_events' =
               Append(stream_events, StreamingEvent(n, chunk, partial, origin))
    ELSE /\ last_stream_time' = times
         /\ stream_events' = stream_events

\* the partial of a token event: the content so far (line 578), for a
\* chunker behind the results of the earlier chunks (line 1197)
Partial(c, parts) ==
    IF nodeType(c.node) = "chunker"
    THEN Join(separator(c.node), Append(c.results, parts))
    ELSE parts

\* an exception leaves the stream of call c: _run_agent_node goes to its
\* fallback when the primary model was streaming and fallbackModel is set
\* (lines 541-558); otherwise the exception leaves the handler
Fails(c, exc) ==
    IF /\ nodeType(c.node) = "agent"
       /\ ~c.on_fallback
       /\ fallback_model(c.node) # ""
    THEN [c EXCEPT !.pc = "marker"]
    ELSE [c EXCEPT !.pc = "raised", !.exc = exc]

\* time passes while the handler waits
StreamTick ==
    /\ call.pc \in {"stream", "marker"}
    /\ clock < StartClock + MaxTicks * TickMs
    /\ clock' = clock + TickMs
    /\ UNCHANGED <<engine_vars, last_event, broadcast_failures,
                   last_stream_time, stream_events, call>>

\* the model stream yields a token (lines 576-578, 1195-1198)
StreamChunk ==
    /\ call.pc = "stream"
    /\ Len(call.content_parts) < MaxTokens
    /\ \E tok \in StreamTokens :
          LET parts == Append(call.content_parts, tok)
          IN  /\ _stream_broadcast(last_stream_time, call.node, <<tok>>,
                                   Partial(call, parts), "token")
              /\ call' = [call EXCEPT !.content_parts = parts]
    /\ UNCHANGED <<engine_vars, last_event, broadcast_failures, clock>>

\* the model stream yields a token and the broadcast callback raises on its
\* event
StreamChunkBroadcastRaises ==
    /\ call.pc = "stream"
    /\ Len(call.content_parts) < MaxTokens
    /\ broadcast_failures < MaxBroadcastFailures
    /\ ThrottlePasses(LastStreamTime(last_stream_time, call.node))
    /\ \E tok \in StreamTokens :
          call' = Fails([call EXCEPT !.content_parts = Append(@, tok)],
                        BroadcastError)
    /\ last_stream_time' = MapSet(last_stream_time, call.node, clock)
    /\ broadcast_failures' = broadcast_failures + 1
    /\ UNCHANGED <<engine_vars, last_event, clock, stream_events>>

\* create_agent, agent.chat or the model stream raises (lines 566-576,
\* 1185-1195)
StreamRaises ==
    /\ call.pc = "stream"
    /\ call.raised < MaxStreamRaises
    /\ call' = Fails([call EXCEPT !.raised = @ + 1], AdapterError)
    /\ UNCHANGED <<engine_vars, last_event, broadcast_failures, clock,
                   last_stream_time, stream_events>>

\* f"[Fallback: {model} -> {fallback_model}]\n" (lines 551-552)
FallbackMarker(n) == <<"[Fallback: ", model(n), " -> ", fallback_model(n), "]\n">>

\* the transition marker is broadcast and the call is redone on the fallback
\* model (lines 547-558)
MarkerDelivered ==
    /\ call.pc = "marker"
    /\ stream_events' =
          Append(stream_events,
                 StreamingEvent(call.node, <<"\n">> \o FallbackMarker(call.node),
                                FallbackMarker(call.node), "marker"))
    /\ call' = [call EXCEPT !.pc = "stream",
                            !.on_fallback = TRUE,
                            !.model = fallback_model(call.node),
                            !.content_parts = << >>]
    /\ UNCHANGED <<engine_vars, last_event, broadcast_failures, clock,
                   last_stream_time>>

\* the broadcast callback raises on the transition marker: the exception
\* leaves _run_agent_node from inside its except block
MarkerRaises ==
    /\ call.pc = "marker"
    /\ broadcast_failures < MaxBroadcastFailures
    /\ broadcast_failures' = broadcast_failures + 1
    /\ call' = [call EXCEPT !.pc = "raised", !.exc = BroadcastError]
    /\ UNCHANGED <<engine_vars, last_event, clock, last_stream_time,
                   stream_events>>

\* f"chunk {i + 1}/{len(chunks)}" (line 1207)
ChunkLabel(i, n) == <<"chunk ", IntText(i), "/", IntText(n)>>

\* the progress event of a chunker after one chunk (lines 1202-1210)
ChunkProgressEvent(c) ==
    [type |-> "workflow_status",
     status |-> "running",
     node_statuses |-> [n \in {c.node} |->
                           ChunkLabel(Len(c.results) + 1, Len(c.chunks))],
     results |-> EmptyMap,
     error |-> EmptyStr]

\* the model stream ends.  An agent resets the throttle, sends the complete
\* content and returns it (lines 580-596); a chunker stores the content of
\* the chunk, broadcasts its progress and goes to the next chunk or returns
\* the joined results (lines 1199-1212)
StreamEnds ==
    /\ call.pc = "stream"
    /\ IF nodeType(call.node) = "chunker"
       THEN LET rs == Append(call.results, call.content_parts)
            IN  /\ last_event' = <<ChunkProgressEvent(call)>>
                /\ call' = IF Len(rs) < Len(call.chunks)
                           THEN [call EXCEPT !.results = rs,
                                             !.content_parts = << >>]
                           ELSE [call EXCEPT !.results = rs,
                                             !.pc = "returned",
                                             !.result = Join(separator(call.node), rs)]
                /\ UNCHANGED <<last_stream_time, stream_events>>
       ELSE /\ _stream_broadcast(MapSet(last_stream_time, call.node, 0),
                                 call.node, EmptyStr, call.content_parts,
                                 "final")
            /\ call' = [call EXCEPT !.pc = "returned",
                                    !.result = call.content_parts]
            /\ UNCHANGED last_event
    /\ UNCHANGED <<engine_vars, broadcast_failures, clock>>

\* the model stream ends and the broadcast callback raises on the event that
\* follows: the complete content of an agent, the progress of a chunker
StreamEndsBroadcastRaises ==
    /\ call.pc = "stream"
    /\ broadcast_failures < MaxBroadcastFailures
    /\ broadcast_failures' = broadcast_failures + 1
    /\ IF nodeType(call.node) = "chunker"
       THEN /\ call' = Fails([call EXCEPT !.results =
                                 Append(@, call.content_parts)], BroadcastError)
            /\ UNCHANGED last_stream_time
       ELSE /\ call' = Fails(call, BroadcastError)
            /\ last_stream_time' =
                  IF ThrottlePasses(0)
                  THEN MapSet(last_stream_time, call.node, clock)
                  ELSE MapSet(last_stream_time, call.node, 0)
    /\ UNCHANGED <<engine_vars, last_event, clock, stream_events>>

StreamNext ==
    \/ StreamTick
    \/ StreamChunk
    \/ StreamChunkBroadcastRaises
    \/ StreamRaises
    \/ MarkerDelivered
    \/ MarkerRaises
    \/ StreamEnds
    \/ StreamEndsBroadcastRaises

StreamSpec == StreamInit /\ [][StreamNext]_vars

(***************************************************************************)
(* Graph analysis on arbitrary node and edge lists                         *)
(***************************************************************************)
\* most edges of an analysed graph
MaxGraphEdges == 3

\* the ids the nodes of an analysed graph are declared with, in declaration
\* order, and an id that no node declares
GraphIds == <<"a", "b", "c">>
UnknownId == "z"

\* id of the i-th edge of an analysed graph
EdgeName(i) ==
    CASE i = 1 -> "e1" [] i = 2 -> "e2" [] i = 3 -> "e3" [] i = 4 -> "e4"
      [] OTHER -> "e5"

\* the ids that the edges of an analysed graph of k nodes run between
GraphEnds(k) == {GraphIds[i] : i \in 1..k} \cup {UnknownId}

\* the definition of k nodes whose i-th edge runs from ends[i][1] to
\* ends[i][2]
GraphDefinition(k, ends) ==
    WorkflowDefinition(
        [i \in 1..k |-> WorkflowNode(GraphIds[i], "loop", [maxIterations |-> 1])],
        [i \in 1..Len(ends) |-> WorkflowEdge(EdgeName(i), ends[i][1], ends[i][2], "")])

\* an engine is about to be constructed over an arbitrary definition of up
\* to Len(GraphIds) nodes and up to MaxGraphEdges edges
GraphInit ==
    /\ \E k \in 1..Len(GraphIds) : \E m \in 0..MaxGraphEdges :
           \E ends \in [1..m -> GraphEnds(k) \X GraphEnds(k)] :
               definition = GraphDefinition(k, ends)
    /\ analysis = [back_edges |-> {}, dag |-> << >>, levels |-> << >>,
                   bodies |-> EmptyMap]
    /\ initial_input = EmptyStr
    /\ timeout = 0
    /\ run_state = "created"
    /\ pc = "new"
    /\ level_idx = 0
    /\ filter_idx = 0
    /\ active_nodes = << >>
    /\ has_error = FALSE
    /\ status = "pending"
    /\ error = EmptyStr
    /\ node_statuses = [n \in NodeIds(definition) |-> "waiting"]
    /\ results = EmptyMap
    /\ status_results = EmptyMap
    /\ blocked_edges = {}
    /\ skip_nodes = {}
    /\ variables = EmptyMap
    /\ task = [n \in NodeIds(definition) |-> "idle"]
    /\ attempt = [n \in NodeIds(definition) |-> 0]
    /\ outcomes = EmptyMap
    /\ calls = [n \in NodeIds(definition) |-> 0]
    /\ raises = [n \in NodeIds(definition) |-> 0]
    /\ node_input = [n \in NodeIds(definition) |-> EmptyStr]
    /\ waits = [n \in NodeIds(definition) |-> << >>]
    /\ last_error = [n \in NodeIds(definition) |-> ""]
    /\ last_event = << >>
    /\ broadcast_failures = 0
    /\ parent = << >>
    /\ driver = NoDriver
    /\ clock = StartClock
    /\ last_stream_time = NoTimes
    /\ stream_events = << >>
    /\ call = NoCall
    /\ history = NoHistory

\* what the graph analysis leaves alone
graph_rest == <<definition, initial_input, timeout, run_state, level_idx,
                filter_idx, active_nodes, has_error, status, error,
                node_statuses, results, status_results, blocked_edges,
                skip_nodes, variables, task, attempt, outcomes, calls, raises,
                node_input, waits, last_error, last_event, broadcast_failures,
                parent, driver, clock, last_stream_time, stream_events, call,
                history>>

\* WorkflowEngine.__init__ detects the back-edges and builds the executor
\* over the remaining edges (lines 47-58), which then levels the nodes
\* (line 178)
AnalyseGraph ==
    /\ pc = "new"
    /\ analysis' = [analysis EXCEPT
                      !.back_edges = _detect_back_edges(definition),
                      !.dag = dag_edges(definition),
                      !.levels = topological_levels(definition)]
    /\ pc' = "analysed"
    /\ UNCHANGED graph_rest

\* _identify_loop_body is called for every detected back-edge, with the
\* edge's target as loop node and its source as back-edge source (lines
\* 1025-1027)
IdentifyLoopBodies ==
    /\ pc = "analysed"
    /\ analysis' = [analysis EXCEPT
                      !.bodies =
                          [e \in {x \in SeqToSet(definition.edges) :
                                     x.id \in analysis.back_edges} |->
                              _identify_loop_body(definition, e.target, e.source)]]
    /\ pc' = "bodies"
    /\ UNCHANGED graph_rest

GraphNext ==
    \/ AnalyseGraph
    \/ IdentifyLoopBodies

GraphSpec == GraphInit /\ [][GraphNext]_vars

(***************************************************************************)
(* The switch handler on arbitrary labels                                  *)
(***************************************************************************)
\* most out-edges of the switch node
MaxSwitchEdges == 3

\* labels a workflow author puts on the out-edges of a switch node
SwitchLabels == {"", "default", "Ready", " True "}

\* texts the switch node is given
SwitchInputs == {<<"READY">>, <<"True", "READY">>, <<"x">>}

\* values of the switchType setting (regex and score are not modelled)
SwitchTypes == {"keyword", "other"}

\* id of the i-th target of the switch node
TargetName(i) ==
    CASE i = 1 -> "T1" [] i = 2 -> "T2" [] i = 3 -> "T3" [] i = 4 -> "T4"
      [] OTHER -> "T5"

\* a switch node S whose i-th out-edge carries labels[i]
SwitchFlow(switch_type, labels) ==
    WorkflowDefinition(
        <<WorkflowNode("S", "switch", [switchType |-> switch_type])>>
            \o [i \in 1..Len(labels) |-> WorkflowNode(TargetName(i), "output", [label |-> ""])],
        [i \in 1..Len(labels) |-> WorkflowEdge(EdgeName(i), "S", TargetName(i), labels[i])])

\* the test of one case label against the input (lines 845-848; the regex
\* and score kinds are not modelled, any other kind matches nothing)
SwitchMatches(n, label, input) ==
    /\ DataGet(nodeData(n), "switchType", "keyword") = "keyword"
    /\ Contains(<<label>>, Lower(input))

\* matched_label of _run_switch_node (lines 839-864)
matched_label(n, input) ==
    LET out == outgoing(n)
        hits == {i \in 1..Len(out) :
                    /\ NormLabel(out[i]) # ""
                    /\ NormLabel(out[i]) # "default"
                    /\ SwitchMatches(n, NormLabel(out[i]), input)}
    IN  IF hits = {} THEN "default"
        ELSE NormLabel(out[CHOOSE i \in hits : \A j \in hits : i <= j])

\* a switch node that blocks edges only when a case matched
SwitchBlocksOnMatch(n, input) ==
    LET matched == matched_label(n, input)
    IN  {e.id : e \in {x \in SeqToSet(outgoing(n)) :
                        /\ matched # "default"
                        /\ NormLabel(x) # ""
                        /\ NormLabel(x) # matched}}

\* edges a switch node adds to blocked_edges (lines 866-875)
SwitchBlocks(n, input) ==
    LET matched == matched_label(n, input)
    IN  {e.id : e \in {x \in SeqToSet(outgoing(n)) :
                        \/ /\ NormLabel(x) # ""
                           /\ NormLabel(x) # matched
                           /\ NormLabel(x) # "default"
                        \/ /\ NormLabel(x) = "default"
                           /\ matched # "default"}}

\* an engine constructed over a switch node and its targets
SwitchInit ==
    /\ \E switch_type \in SwitchTypes : \E m \in 1..MaxSwitchEdges :
           \E labels \in [1..m -> SwitchLabels] :
               definition = SwitchFlow(switch_type, labels)
    /\ analysis = [dag |-> dag_edges(definition),
                   levels |-> topological_levels(definition),
                   incoming |-> [n \in NodeIds(definition) |-> _incoming_edges(definition, n)],
                   outgoing |-> [n \in NodeIds(definition) |-> _outgoing_edges(definition, n)]]
    /\ initial_input \in SwitchInputs
    /\ timeout = 0
    /\ run_state = "created"
    /\ pc = "switch"
    /\ level_idx = 0
    /\ filter_idx = 0
    /\ active_nodes = << >>
    /\ has_error = FALSE
    /\ status = "pending"
    /\ error = EmptyStr
    /\ node_statuses = [n \in NodeIds(definition) |-> "waiting"]
    /\ results = EmptyMap
    /\ status_results = EmptyMap
    /\ blocked_edges = {}
    /\ skip_nodes = {}
    /\ variables = EmptyMap
    /\ task = [n \in NodeIds(definition) |-> "idle"]
    /\ attempt = [n \in NodeIds(definition) |-> 0]
    /\ outcomes = EmptyMap
    /\ calls = [n \in NodeIds(definition) |-> 0]
    /\ raises = [n \in NodeIds(definition) |-> 0]
    /\ node_input = [n \in NodeIds(definition) |-> EmptyStr]
    /\ waits = [n \in NodeIds(definition) |-> << >>]
    /\ last_error = [n \in NodeIds(definition) |-> ""]
    /\ last_event = << >>
    /\ broadcast_failures = 0
    /\ parent = << >>
    /\ driver = NoDriver
    /\ clock = StartClock
    /\ last_stream_time = NoTimes
    /\ stream_events = << >>
    /\ call = NoCall
    /\ history = NoHistory

\* _run_switch_node is called on node S with the input text: it blocks the
\* edges and returns the text (lines 833-877)
RunSwitchNode ==
    /\ UNCHANGED <<stream_vars, history>>
    /\ pc = "switch"
    /\ pc' = "switched"
    /\ node_input' = [node_input EXCEPT !["S"] = initial_input]
    /\ calls' = [calls EXCEPT !["S"] = @ + 1]
    /\ driver' = [pc |-> "idle", matched_label |-> matched_label("S", initial_input)]
    /\ blocked_edges' = AddBlocked(SwitchBlocks("S", initial_input))
    /\ outcomes' = MapSet(outcomes, "S", [ok |-> TRUE, value |-> initial_input])
    /\ UNCHANGED <<definition, analysis, initial_input, timeout, run_state,
                   level_idx, filter_idx, active_nodes, has_error, status,
                   error, node_statuses, results, status_results, skip_nodes,
                   variables, task, attempt, raises, waits, last_error,
                   last_event, broadcast_failures, parent>>

SwitchNext == RunSwitchNode

SwitchSpec == SwitchInit /\ [][SwitchNext]_vars

(***************************************************************************)
(* The validator handler                                                   *)
(***************************************************************************)
\* labels a workflow author puts on the out-edges of a validator node
ValidatorLabels == {"", "pass", "fail"}

\* what the validator agent may answer: text without a JSON object, an
\* object that json.loads rejects, or an object whose "valid" member is
\* true, false or missing and whose "score" member int() accepts or not
ValidatorResponses ==
    {[kind |-> "text", valid |-> "missing", score |-> "int"],
     [kind |-> "bad_json", valid |-> "missing", score |-> "int"]}
    \cup [kind : {"object"}, valid : {"true", "false", "missing"},
          score : {"int", "bad"}]

\* the score an answer with an acceptable score carries
ResponseScore == 3

\* a validator node V whose i-th out-edge carries labels[i]
ValidatorFlow(labels) ==
    WorkflowDefinition(
        <<WorkflowNode("V", "validator", [strictness |-> 7])>>
            \o [i \in 1..Len(labels) |-> WorkflowNode(TargetName(i), "output", [label |-> ""])],
        [i \in 1..Len(labels) |-> WorkflowEdge(EdgeName(i), "V", TargetName(i), labels[i])])

\* the "Parse JSON response" block (lines 925-938): valid, reason and score
\* start at their defaults and are assigned one after the other inside the
\* try; an exception leaves the assignments made before it
ParseResponse(r) ==
    IF r.kind # "object"
    THEN [valid |-> FALSE, reason |-> "Could not parse validator response", score |-> 0]
    ELSE [valid |-> (r.valid = "true"),
          reason |-> "r",
          score |-> IF r.score = "int" THEN ResponseScore ELSE 0]

\* edges a validator node adds to blocked_edges (lines 940-946)
ValidatorBlocks(n, valid) ==
    {e.id : e \in {x \in SeqToSet(outgoing(n)) :
                    \/ valid /\ NormLabel(x) = "fail"
                    \/ ~valid /\ NormLabel(x) = "pass"}}

\* the validation report appended to the input (lines 948-950)
ValidationReport(parsed) ==
    <<"\n\n---\n**Validation:** ", IF parsed.valid THEN "PASS" ELSE "FAIL",
      " (score: ", IntText(parsed.score), "/10)\n**Reason:** ", parsed.reason>>

\* an engine constructed over a validator node and its targets
ValidatorInit ==
    /\ \E m \in 1..MaxSwitchEdges : \E labels \in [1..m -> ValidatorLabels] :
           definition = ValidatorFlow(labels)
    /\ analysis = [dag |-> dag_edges(definition),
                   levels |-> topological_levels(definition),
                   incoming |-> [n \in NodeIds(definition) |-> _incoming_edges(definition, n)],
                   outgoing |-> [n \in NodeIds(definition) |-> _outgoing_edges(definition, n)]]
    /\ initial_input = <<"hello">>
    /\ timeout = 0
    /\ run_state = "created"
    /\ pc = "validator"
    /\ level_idx = 0
    /\ filter_idx = 0
    /\ active_nodes = << >>
    /\ has_error = FALSE
    /\ status = "pending"
    /\ error = EmptyStr
    /\ node_statuses = [n \in NodeIds(definition) |-> "waiting"]
    /\ results = EmptyMap
    /\ status_results = EmptyMap
    /\ blocked_edges = {}
    /\ skip_nodes = {}
    /\ variables = EmptyMap
    /\ task = [n \in NodeIds(definition) |-> "idle"]
    /\ attempt = [n \in NodeIds(definition) |-> 0]
    /\ outcomes = EmptyMap
    /\ calls = [n \in NodeIds(definition) |-> 0]
    /\ raises = [n \in NodeIds(definition) |-> 0]
    /\ node_input = [n \in NodeIds(definition) |-> EmptyStr]
    /\ waits = [n \in NodeIds(definition) |-> << >>]
    /\ last_error = [n \in NodeIds(definition) |-> ""]
    /\ last_event = << >>
    /\ broadcast_failures = 0
    /\ parent = << >>
    /\ driver = NoDriver
    /\ clock = StartClock
    /\ last_stream_time = NoTimes
    /\ stream_events = << >>
    /\ call = NoCall
    /\ history = NoHistory

\* what the validator handler leaves alone
validator_rest == <<definition, analysis, initial_input, timeout, run_state,
                    level_idx, filter_idx, active_nodes, has_error, status,
                    error, node_statuses, results, status_results, skip_nodes,
                    variables, attempt, raises, waits, last_error, last_event,
                    broadcast_failures, parent, history,
                    clock, last_stream_time, stream_events, call>>

\* _run_validator_node is called on node V with the input text: it builds
\* the prompt and awaits the agent (lines 879-918)
StartValidator ==
    /\ pc = "validator"
    /\ pc' = "validating"
    /\ node_input' = [node_input EXCEPT !["V"] = initial_input]
    /\ calls' = [calls EXCEPT !["V"] = @ + 1]
    /\ task' = [task EXCEPT !["V"] = "inflight"]
    /\ UNCHANGED <<blocked_edges, outcomes, driver>>
    /\ UNCHANGED validator_rest

\* the agent's answer is complete: it is parsed, the edges are blocked and
\* the input is returned with the report (lines 923-950)
ValidatorResponds ==
    /\ pc = "validating"
    /\ pc' = "validated"
    /\ \E r \in ValidatorResponses :
          LET parsed == ParseResponse(r) IN
          /\ driver' = [pc |-> "idle", response |-> r, valid |-> parsed.valid,
                        reason |-> parsed.reason, score |-> parsed.score]
          /\ blocked_edges' = AddBlocked(ValidatorBlocks("V", parsed.valid))
          /\ outcomes' = MapSet(outcomes, "V",
                                [ok |-> TRUE,
                                 value |-> node_input["V"] \o ValidationReport(parsed)])
    /\ task' = [task EXCEPT !["V"] = "finished"]
    /\ UNCHANGED <<node_input, calls>>
    /\ UNCHANGED validator_rest

ValidatorNext ==
    \/ StartValidator
    \/ ValidatorResponds

ValidatorSpec == ValidatorInit /\ [][ValidatorNext]_vars

(***************************************************************************)
(* The internal generate/critique loop                                     *)
(***************************************************************************)
\* how much of the critic's answer is searched for the stop token (line 1003)
CriticHead == 100

\* settings of a loop node that no back-edge targets
InternalLoopConfigs ==
    [maxIterations : 0..MaxIterations,
     exitConditionType : {"keyword", "score", "always"}]
    \cup [maxIterations : 0..MaxIterations,
          exitConditionType : {"keyword", "score", "always"},
          exitValue : {[kind |-> "str", text |-> <<"approved">>],
                       [kind |-> "str", text |-> EmptyStr],
                       [kind |-> "int", text |-> <<"8">>]}]

\* a loop node L with one downstream node and no back-edge
InternalLoopFlow(cfg) ==
    WorkflowDefinition(
        << WorkflowNode("L", "loop", cfg),
           WorkflowNode("O", "output", [label |-> ""]) >>,
        << WorkflowEdge("e1", "L", "O", "") >>)

\* what the critic may answer: a word after pad characters of other text
CriticResponses ==
    [pad : {0, CriticHead - 1, CriticHead},
     word : {"APPROVED", "approved", "PASS", "no"}]

\* critic_resp.content
Content(r) == [i \in 1..r.pad |-> "a"] \o <<r.word>>

\* exit_value or data.get("stop_condition", "PASS")  (line 967)
stop_condition(n) ==
    LET exit_value == DataGet(nodeData(n), "exitValue",
                              [kind |-> "str", text |-> <<"APPROVED">>])
    IN  IF Falsy(exit_value)
        THEN DataGet(nodeData(n), "stop_condition",
                     [kind |-> "str", text |-> <<"PASS">>])
        ELSE exit_value

\* content.upper()[:100]
CriticHeadOf(content) ==
    SubSeq(Upper(content), 1,
           IF Len(content) < CriticHead THEN Len(content) ELSE CriticHead)

\* the test of line 1003 is reached and stop_condition.upper() raises: the
\* stop condition is not a str
StopTestRaises(n) ==
    /\ DataGet(nodeData(n), "exitConditionType", "keyword") = "keyword"
    /\ stop_condition(n).kind # "str"

\* the return test of the loop ignoring the exit type
StopsOnToken(n, r) ==
    Contains(Upper(stop_condition(n).text), CriticHeadOf(Content(r)))

\* the return test of line 1003
StopsLoop(n, r) ==
    /\ DataGet(nodeData(n), "exitConditionType", "keyword") = "keyword"
    /\ Contains(Upper(stop_condition(n).text), CriticHeadOf(Content(r)))

\* what the generator answers in its k-th call
Generated(k) == <<"draft", IntText(k)>>

\* the next input of the generator (lines 1005-1010)
Refinement(n, input, gen_content, r) ==
    <<"Original: ">> \o input \o <<"\n\nPrevious output:\n">> \o gen_content
        \o <<"\n\nFeedback:\n">> \o Content(r) \o <<"\n\n">>
        \o DataGet(nodeData(n), "refinementPrompt",
                   <<"Improve the content based on the feedback.">>)

\* an engine constructed over a loop node without back-edge
InternalLoopInit ==
    /\ \E cfg \in InternalLoopConfigs : definition = InternalLoopFlow(cfg)
    /\ analysis = [dag |-> dag_edges(definition),
                   levels |-> topological_levels(definition),
                   incoming |-> [n \in NodeIds(definition) |-> _incoming_edges(definition, n)],
                   outgoing |-> [n \in NodeIds(definition) |-> _outgoing_edges(definition, n)]]
    /\ initial_input = <<"hello">>
    /\ timeout = 0
    /\ run_state = "created"
    /\ pc = "loop"
    /\ level_idx = 0
    /\ filter_idx = 0
    /\ active_nodes = << >>
    /\ has_error = FALSE
    /\ status = "pending"
    /\ error = EmptyStr
    /\ node_statuses = [n \in NodeIds(definition) |-> "waiting"]
    /\ results = EmptyMap
    /\ status_results = EmptyMap
    /\ blocked_edges = {}
    /\ skip_nodes = {}
    /\ variables = EmptyMap
    /\ task = [n \in NodeIds(definition) |-> "idle"]
    /\ attempt = [n \in NodeIds(definition) |-> 0]
    /\ outcomes = EmptyMap
    /\ calls = [n \in NodeIds(definition) |-> 0]
    /\ raises = [n \in NodeIds(definition) |-> 0]
    /\ node_input = [n \in NodeIds(definition) |-> EmptyStr]
    /\ waits = [n \in NodeIds(definition) |-> << >>]
    /\ last_error = [n \in NodeIds(definition) |-> ""]
    /\ last_event = << >>
    /\ broadcast_failures = 0
    /\ parent = << >>
    /\ driver = NoDriver
    /\ clock = StartClock
    /\ last_stream_time = NoTimes
    /\ stream_events = << >>
    /\ call = NoCall
    /\ history = NoHistory

\* what the internal loop leaves alone
internal_rest == <<definition, analysis, initial_input, timeout, run_state,
                   level_idx, filter_idx, active_nodes, has_error, status,
                   error, node_statuses, results, status_results, skip_nodes,
                   blocked_edges, variables, attempt, waits, last_error,
                   last_event, broadcast_failures, parent, history,
                   clock, last_stream_time, stream_events, call>>

\* the handler returns value
InternalReturns(value) ==
    /\ pc' = "looped"
    /\ task' = [task EXCEPT !["L"] = "finished"]
    /\ outcomes' = MapSet(outcomes, "L", [ok |-> TRUE, value |-> value])

\* an exception leaves the handler
InternalRaises(exc) ==
    /\ pc' = "looped"
    /\ task' = [task EXCEPT !["L"] = "raised"]
    /\ raises' = [raises EXCEPT !["L"] = @ + 1]
    /\ outcomes' = MapSet(outcomes, "L", [ok |-> FALSE, value |-> <<exc>>])

\* _run_loop_node is called on L: no back-edge targets it, the two agents
\* are created and the for loop is entered (lines 952-987)
StartInternalLoop ==
    /\ pc = "loop"
    /\ node_input' = [node_input EXCEPT !["L"] = initial_input]
    /\ calls' = [calls EXCEPT !["L"] = @ + 1]
    /\ driver' = [pc |-> "generate", iteration |-> 0,
                  current |-> initial_input, gen_content |-> EmptyStr,
                  gen_calls |-> 0, critics |-> << >>]
    /\ IF max_iter("L") > 0
       THEN /\ pc' = "looping"
            /\ task' = [task EXCEPT !["L"] = "inflight"]
            /\ UNCHANGED <<outcomes, raises>>
       ELSE /\ InternalReturns(EmptyStr)
            /\ UNCHANGED raises
    /\ UNCHANGED internal_rest

\* the generator's stream is exhausted (lines 989-994)
GeneratorResponds ==
    /\ pc = "looping"
    /\ driver.pc = "generate"
    /\ driver' = [driver EXCEPT !.pc = "critique",
                                !.gen_calls = @ + 1,
                                !.gen_content = Generated(driver.gen_calls + 1)]
    /\ UNCHANGED <<pc, task, outcomes, raises, node_input, calls>>
    /\ UNCHANGED internal_rest

\* generator.chat or critic.chat raises
InternalAgentRaises ==
    /\ pc = "looping"
    /\ driver' = [driver EXCEPT !.pc = "raised",
                                !.gen_calls = IF driver.pc = "generate" THEN @ + 1 ELSE @]
    /\ InternalRaises("adapter error")
    /\ UNCHANGED <<node_input, calls>>
    /\ UNCHANGED internal_rest

\* the critic answers: the stop test, then the next input and the next
\* iteration or the return after the loop (lines 997-1011)
CriticResponds ==
    /\ pc = "looping"
    /\ driver.pc = "critique"
    /\ \E r \in CriticResponses :
          IF StopTestRaises("L")
          THEN /\ driver' = [driver EXCEPT !.pc = "raised", !.critics = Append(@, r)]
               /\ InternalRaises("AttributeError")
          ELSE IF StopsLoop("L", r)
          THEN /\ driver' = [driver EXCEPT !.pc = "return", !.critics = Append(@, r)]
               /\ InternalReturns(driver.gen_content)
               /\ UNCHANGED raises
          ELSE /\ driver' = [driver EXCEPT
                               !.pc = IF driver.iteration + 1 < max_iter("L")
                                      THEN "generate" ELSE "return",
                               !.iteration = @ + 1,
                               !.critics = Append(@, r),
                               !.current = Refinement("L", node_input["L"],
                                                      driver.gen_content, r)]
               /\ IF driver.iteration + 1 < max_iter("L")
                  THEN UNCHANGED <<pc, task, outcomes, raises>>
                  ELSE /\ InternalReturns(driver.gen_content)
                       /\ UNCHANGED raises
    /\ UNCHANGED <<node_input, calls>>
    /\ UNCHANGED internal_rest

InternalLoopNext ==
    \/ StartInternalLoop
    \/ GeneratorResponds
    \/ InternalAgentRaises
    \/ CriticResponds

InternalLoopSpec == InternalLoopInit /\ [][InternalLoopNext]_vars

(***************************************************************************)
(* The chunker's splitter: _split_text, one step per loop iteration        *)
(***************************************************************************)
\* longest text given to the splitter, one token per character
MaxTextLen == 4

\* largest chunkSize configured
MaxChunkSize == 3

\* how many chunks of the list are kept in the state: more than a loop whose
\* start advances can produce
KeptChunks == MaxTextLen + 1

SplitLetters == <<"a", "b", "c", "d", "e", "f", "g">>

\* the texts given to the splitter
SplitTexts == {SubSeq(SplitLetters, 1, n) : n \in 0..MaxTextLen}

\* a chunker node C with its settings
SplitFlow(chunk_size, overlap) ==
    WorkflowDefinition(
        << WorkflowNode("C", "chunker", [chunkSize |-> chunk_size, overlap |-> overlap]) >>,
        << >>)

\* text[start:end] for 0 <= start <= end, start counted from 0
Slice(text, start, end) ==
    SubSeq(text, start + 1, IF end > Len(text) THEN Len(text) ELSE end)

\* _run_chunker_node is about to call  self._split_text(input_text,
\* chunk_size, overlap)  (lines 1170-1179)
SplitInit ==
    /\ \E chunk_size \in 0..MaxChunkSize : \E overlap \in 0..chunk_size :
           definition = SplitFlow(chunk_size, overlap)
    /\ initial_input \in SplitTexts
    /\ analysis = [dag |-> dag_edges(definition),
                   levels |-> topological_levels(definition),
                   incoming |-> [n \in NodeIds(definition) |-> _incoming_edges(definition, n)],
                   outgoing |-> [n \in NodeIds(definition) |-> _outgoing_edges(definition, n)]]
    /\ timeout = 0
    /\ run_state = "created"
    /\ pc = "split"
    /\ level_idx = 0
    /\ filter_idx = 0
    /\ active_nodes = << >>
    /\ has_error = FALSE
    /\ status = "pending"
    /\ error = EmptyStr
    /\ node_statuses = [n \in NodeIds(definition) |-> "running"]
    /\ results = EmptyMap
    /\ status_results = EmptyMap
    /\ blocked_edges = {}
    /\ skip_nodes = {}
    /\ variables = EmptyMap
    /\ task = [n \in NodeIds(definition) |-> "inflight"]
    /\ attempt = [n \in NodeIds(definition) |-> 0]
    /\ outcomes = EmptyMap
    /\ calls = [n \in NodeIds(definition) |-> 1]
    /\ raises = [n \in NodeIds(definition) |-> 0]
    /\ node_input = [n \in NodeIds(definition) |-> initial_input]
    /\ waits = [n \in NodeIds(definition) |-> << >>]
    /\ last_error = [n \in NodeIds(definition) |-> ""]
    /\ last_event = << >>
    /\ broadcast_failures = 0
    /\ parent = << >>
    /\ driver = NoDriver
    /\ clock = StartClock
    /\ last_stream_time = NoTimes
    /\ stream_events = << >>
    /\ call = NoCall
    /\ history = NoHistory

\* what the splitter leaves alone
split_rest == <<definition, analysis, initial_input, timeout, run_state,
                level_idx, filter_idx, active_nodes, has_error, status, error,
                node_statuses, results, status_results, blocked_edges,
                skip_nodes, variables, task, attempt, outcomes, calls, raises,
                node_input, waits, last_error, last_event, broadcast_failures,
                parent, history, clock, last_stream_time, stream_events, call>>

\* the head of _split_text: a text no longer than chunk_size is returned
\* whole, otherwise the loop starts at 0 (lines 1217-1220)
SplitEnter ==
    /\ pc = "split"
    /\ LET text == node_input["C"]
           chunk_size == _get(nodeData("C"), "chunkSize", "chunk_size", 2000)
           overlap == _get(nodeData("C"), "overlap", "overlap", 200)
       IN  IF Len(text) <= chunk_size
           THEN /\ pc' = "split_returned"
                /\ driver' = [pc |-> "idle", text |-> text, chunk_size |-> chunk_size,
                              overlap |-> overlap, start |-> 0,
                              chunks |-> <<text>>]
           ELSE /\ pc' = "split_loop"
                /\ driver' = [pc |-> "idle", text |-> text, chunk_size |-> chunk_size,
                              overlap |-> overlap, start |-> 0,
                              chunks |-> << >>]
    /\ UNCHANGED split_rest

\* one iteration of  while start < len(text)  (lines 1221-1225). Only the
\* first KeptChunks chunks are recorded: an iteration that neither advances
\* start nor has room to record its chunk leaves the state as it is, which
\* is the loop running on without end
SplitStep ==
    /\ pc = "split_loop"
    /\ driver.start < Len(driver.text)
    /\ LET end == driver.start + driver.chunk_size
           chunk == Slice(driver.text, driver.start, end)
       IN  driver' = [driver EXCEPT
                        !.chunks = IF Len(@) < KeptChunks THEN Append(@, chunk) ELSE @,
                        !.start = end - driver.overlap]
    /\ UNCHANGED pc
    /\ UNCHANGED split_rest

\* the loop test fails and the list is returned (line 1226)
SplitExit ==
    /\ pc = "split_loop"
    /\ driver.start >= Len(driver.text)
    /\ pc' = "split_returned"
    /\ UNCHANGED driver
    /\ UNCHANGED split_rest

SplitNext ==
    \/ SplitEnter
    \/ SplitStep
    \/ SplitExit

\* the splitter is straight-line code: once called it keeps running
SplitSpec == SplitInit /\ [][SplitNext]_vars /\ WF_vars(SplitNext)

(***************************************************************************)
(* The WebSocket connection manager (websocket/handlers.py)                *)
(*                                                                         *)
(* The manager and its callers are kept in driver: _connections is the     *)
(* manager's list, sockets the state of every WebSocket and of its         *)
(* websocket_endpoint coroutine, broadcasts the locals of the broadcast    *)
(* calls in progress and the sockets on which a send of the call failed.   *)
(***************************************************************************)
\* the WebSocket objects
Sockets == {"ws1", "ws2"}

\* the callers of manager.broadcast that may overlap: the nodes of a
\* parallel level, the engines of concurrent runs
Broadcasters == {"b1", "b2"}

\* an engine that takes no part: the services below run beside it
NoEngineOf(d) ==
    /\ definition = d
    /\ analysis = [dag |-> dag_edges(definition),
                   levels |-> topological_levels(definition),
                   incoming |-> [n \in NodeIds(definition) |-> _incoming_edges(definition, n)],
                   outgoing |-> [n \in NodeIds(definition) |-> _outgoing_edges(definition, n)]]
    /\ initial_input = EmptyStr
    /\ timeout = 0
    /\ run_state = "created"
    /\ level_idx = 0
    /\ filter_idx = 0
    /\ active_nodes = << >>
    /\ has_error = FALSE
    /\ status = "pending"
    /\ error = EmptyStr
    /\ node_statuses = [n \in NodeIds(definition) |-> "waiting"]
    /\ results = EmptyMap
    /\ status_results = EmptyMap
    /\ blocked_edges = {}
    /\ skip_nodes = {}
    /\ variables = EmptyMap
    /\ task = [n \in NodeIds(definition) |-> "idle"]
    /\ attempt = [n \in NodeIds(definition) |-> 0]
    /\ outcomes = EmptyMap
    /\ calls = [n \in NodeIds(definition) |-> 0]
    /\ raises = [n \in NodeIds(definition) |-> 0]
    /\ node_input = [n \in NodeIds(definition) |-> EmptyStr]
    /\ waits = [n \in NodeIds(definition) |-> << >>]
    /\ last_error = [n \in NodeIds(definition) |-> ""]
    /\ last_event = << >>
    /\ broadcast_failures = 0
    /\ parent = << >>
    /\ clock = StartClock
    /\ last_stream_time = NoTimes
    /\ stream_events = << >>
    /\ call = NoCall
    /\ history = NoHistory

\* what the services leave alone
service_rest == <<definition, analysis, initial_input, timeout, run_state,
                  level_idx, filter_idx, active_nodes, has_error, status, error,
                  node_statuses, results, status_results, blocked_edges,
                  skip_nodes, variables, task, attempt, outcomes, calls, raises,
                  node_input, waits, last_error, last_event, broadcast_failures,
                  parent, history, clock, last_stream_time, stream_events, call>>

\* list.remove(x): the first x goes
RECURSIVE ListRemove(_, _)
ListRemove(list, x) ==
    IF list = << >> THEN << >>
    ELSE IF Head(list) = x THEN Tail(list)
    ELSE <<Head(list)>> \o ListRemove(Tail(list), x)

\* list.remove(x) raises ValueError: x is not in the list
RemoveRaises(list, x) == x \notin SeqToSet(list)

\* ConnectionManager.__init__ (lines 16-17); no socket has connected yet
ManagerInit ==
    /\ NoEngineOf(WorkflowDefinition(<< >>, << >>))
    /\ pc = "serving"
    /\ driver = [pc |-> "idle",
                 _connections |-> << >>,
                 sockets |-> [w \in Sockets |->
                                [endpoint |-> "new", alive |-> TRUE, removed |-> 0]],
                 broadcasts |-> [b \in Broadcasters |->
                                   [pc |-> "idle", snapshot |-> << >>, i |-> 0,
                                    failed |-> {}]]]

\* websocket_endpoint accepts the socket, manager.connect appends it and the
\* endpoint waits in receive_text (lines 19-21, 42-45)
Connect(w) ==
    /\ pc = "serving"
    /\ driver.sockets[w].endpoint = "new"
    /\ driver.sockets[w].alive
    /\ driver' = [driver EXCEPT !._connections = Append(@, w),
                                !.sockets[w].endpoint = "open"]
    /\ UNCHANGED pc
    /\ UNCHANGED service_rest

\* the peer of socket w goes away
SocketCloses(w) ==
    /\ pc = "serving"
    /\ driver.sockets[w].endpoint = "open"
    /\ driver.sockets[w].alive
    /\ driver' = [driver EXCEPT !.sockets[w].alive = FALSE]
    /\ UNCHANGED pc
    /\ UNCHANGED service_rest

\* receive_text raises WebSocketDisconnect in the endpoint of w, which calls
\* manager.disconnect(ws) (lines 23-24, 49-50)
Disconnect(w) ==
    /\ pc = "serving"
    /\ driver.sockets[w].endpoint = "open"
    /\ ~driver.sockets[w].alive
    /\ driver' =
         IF RemoveRaises(driver._connections, w)
         THEN [driver EXCEPT !.sockets[w].endpoint = "raised"]
         ELSE [driver EXCEPT !._connections = ListRemove(@, w),
                             !.sockets[w].endpoint = "closed",
                             !.sockets[w].removed = @ + 1]
    /\ UNCHANGED pc
    /\ UNCHANGED service_rest

\* broadcast is called: the list is copied and the first send is awaited
\* (lines 27-29)
BroadcastBegins(b) ==
    /\ pc = "serving"
    /\ driver.broadcasts[b].pc \in {"idle", "returned"}
    /\ driver' = [driver EXCEPT
                    !.broadcasts[b] =
                        [pc |-> IF driver._connections = << >>
                                THEN "returned" ELSE "send",
                         snapshot |-> driver._connections,
                         i |-> 1,
                         failed |-> {}]]
    /\ UNCHANGED pc
    /\ UNCHANGED service_rest

\* the send awaited by broadcast b is over: on a socket that is gone it has
\* raised and the except clause removes the socket; then the next send is
\* awaited or broadcast returns (lines 27-31)
SendEnds(b) ==
    /\ pc = "serving"
    /\ driver.broadcasts[b].pc = "send"
    /\ LET me == driver.broadcasts[b]
           ws == me.snapshot[me.i]
           next == IF me.i < Len(me.snapshot)
                   THEN [me EXCEPT !.i = @ + 1]
                   ELSE [me EXCEPT !.pc = "returned"]
       IN  driver' =
             IF driver.sockets[ws].alive
             THEN [driver EXCEPT !.broadcasts[b] = next]
             ELSE IF RemoveRaises(driver._connections, ws)
             THEN [driver EXCEPT !.broadcasts[b].pc = "raised",
                                 !.broadcasts[b].failed = @ \cup {ws}]
             ELSE [driver EXCEPT !.broadcasts[b] = [next EXCEPT !.failed = @ \cup {ws}],
                                 !._connections = ListRemove(@, ws),
                                 !.sockets[ws].removed = @ + 1]
    /\ UNCHANGED pc
    /\ UNCHANGED service_rest

ManagerNext ==
    \/ \E w \in Sockets : Connect(w)
    \/ \E w \in Sockets : SocketCloses(w)
    \/ \E w \in Sockets : Disconnect(w)
    \/ \E b \in Broadcasters : BroadcastBegins(b)
    \/ \E b \in Broadcasters : SendEnds(b)

ManagerSpec == ManagerInit /\ [][ManagerNext]_vars

(***************************************************************************)
(* The job scheduler (scheduler/scheduler.py) with one cron job             *)
(*                                                                         *)
(* The service is kept in driver: _running is its flag, loops the _loop    *)
(* tasks that are alive, oldest first (self._task is the last one          *)
(* created), time the clock in seconds, last_run the job's column in the   *)
(* database (NoRun is None), launches the  now  of every check cycle that  *)
(* launched the job, start_calls the number of start() calls so far.       *)
(***************************************************************************)
\* how long the clock runs, in steps of 20 seconds
MaxSchedulerTicks == 9

\* how many times start() is called
MaxStartCalls == 3

\* asyncio.sleep(60) of the loop (line 86)
CheckPeriod == 60

\* the guard  (now - job.last_run).total_seconds() < 60  (line 119)
SameMinuteGuard == 60

\* job.last_run is None
NoRun == 0 - 1

\* the cron expressions of the job: every minute, every second minute
CronExprs == {<<"*", "*", "*", "*", "*">>, <<"*/2", "*", "*", "*", "*">>}

\* _parse_cron_field(field, 0, 59) for the fields used (lines 13-28)
_parse_cron_field(field) ==
    IF field = "*" THEN 0..59
    ELSE {m \in 0..59 : m % 2 = 0}

\* dt.minute of a time in seconds
MinuteOf(t) == (t \div 60) % 60

\* cron_matches(cron_expr, dt) (lines 31-50); the other four fields are "*"
cron_matches(cron_expr, t) ==
    /\ Len(cron_expr) = 5
    /\ MinuteOf(t) \in _parse_cron_field(cron_expr[1])

\* the guard of lines 118-120 on a last_run that is not None
TooSoonNever(now, last_run) == FALSE
TooSoon(now, last_run) == now - last_run < SameMinuteGuard

\* SchedulerService.__init__ (lines 56-58). The DateTime column gives
\* last_run back without time zone (naive) or with it, as the database does
SchedulerInit ==
    /\ NoEngineOf(WorkflowDefinition(<< >>, << >>))
    /\ pc = "scheduling"
    /\ \E expr \in CronExprs : \E naive \in BOOLEAN :
         driver = [pc |-> "idle", _running |-> FALSE, loops |-> << >>,
                   time |-> 0, naive |-> naive, cron_expr |-> expr,
                   last_run |-> NoRun, launches |-> << >>, start_calls |-> 0]

\* 20 seconds pass
SchedulerTick ==
    /\ pc = "scheduling"
    /\ driver.time < 20 * MaxSchedulerTicks
    /\ driver' = [driver EXCEPT !.time = @ + 20]
    /\ UNCHANGED pc
    /\ UNCHANGED service_rest

\* start() (lines 60-66)
SchedulerStart ==
    /\ pc = "scheduling"
    /\ driver.start_calls < MaxStartCalls
    /\ driver' = IF driver._running
                 THEN [driver EXCEPT !.start_calls = @ + 1]
                 ELSE [driver EXCEPT
                         !.start_calls = @ + 1,
                         !._running = TRUE,
                         !.loops = Append(@, [pc |-> "created", now |-> 0, wake |-> 0])]
    /\ UNCHANGED pc
    /\ UNCHANGED service_rest

\* stop() (lines 68-77): self._task is cancelled where it waits and ends; a
\* commit it was waiting for has reached the database or has not
SchedulerStop ==
    /\ pc = "scheduling"
    /\ driver._running
    /\ LET k == Len(driver.loops) IN
       \E committed \in BOOLEAN :
         driver' = [driver EXCEPT
                      !._running = FALSE,
                      !.loops = IF k = 0 THEN @ ELSE SubSeq(@, 1, k - 1),
                      !.last_run = IF k > 0 /\ driver.loops[k].pc = "commit" /\ committed
                                   THEN driver.loops[k].now ELSE @]
    /\ UNCHANGED pc
    /\ UNCHANGED service_rest

\* a loop task runs for the first time or its sleep is over: while
\* self._running it calls _check_jobs, which reads the clock and awaits the
\* query (lines 81-83, 96-102)
CheckBegins(i) ==
    /\ pc = "scheduling"
    /\ i \in 1..Len(driver.loops)
    /\ \/ driver.loops[i].pc = "created"
       \/ driver.loops[i].pc = "sleep" /\ driver.time >= driver.loops[i].wake
    /\ driver' = IF driver._running
                 THEN [driver EXCEPT !.loops[i].pc = "query",
                                     !.loops[i].now = driver.time]
                 ELSE [driver EXCEPT
                         !.loops = SubSeq(@, 1, i - 1) \o SubSeq(@, i + 1, Len(@))]
    /\ UNCHANGED pc
    /\ UNCHANGED service_rest

\* the query returns the job: should_run is computed; a job that is due is
\* stamped and the commit awaited, otherwise (or when now - job.last_run
\* raises TypeError on a naive last_run, caught at line 84) the loop sleeps
\* (lines 104-125, 84-86)
QueryReturns(i) ==
    /\ pc = "scheduling"
    /\ i \in 1..Len(driver.loops)
    /\ driver.loops[i].pc = "query"
    /\ LET now == driver.loops[i].now
           last_run == driver.last_run
           matches == cron_matches(driver.cron_expr, now)
           raises_type_error == matches /\ last_run # NoRun /\ driver.naive
           should_run == /\ matches
                         /\ ~(last_run # NoRun /\ TooSoon(now, last_run))
       IN  driver' = IF ~raises_type_error /\ should_run
                     THEN [driver EXCEPT !.loops[i].pc = "commit"]
                     ELSE [driver EXCEPT !.loops[i].pc = "sleep",
                                         !.loops[i].wake = driver.time + CheckPeriod]
    /\ UNCHANGED pc
    /\ UNCHANGED service_rest

\* the commit is over: last_run is in the database, the workflow is launched
\* with create_task and the loop sleeps (lines 125-127, 86); or the commit
\* raises, which the loop logs (lines 84-86)
CommitReturns(i) ==
    /\ pc = "scheduling"
    /\ i \in 1..Len(driver.loops)
    /\ driver.loops[i].pc = "commit"
    /\ \E ok \in BOOLEAN :
         driver' = IF ok
                   THEN [driver EXCEPT
                           !.last_run = driver.loops[i].now,
                           !.launches = Append(@, driver.loops[i].now),
                           !.loops[i].pc = "sleep",
                           !.loops[i].wake = driver.time + CheckPeriod]
                   ELSE [driver EXCEPT
                           !.loops[i].pc = "sleep",
                           !.loops[i].wake = driver.time + CheckPeriod]
    /\ UNCHANGED pc
    /\ UNCHANGED service_rest

SchedulerNext ==
    \/ SchedulerTick
    \/ SchedulerStart
    \/ SchedulerStop
    \/ \E i \in 1..MaxStartCalls : CheckBegins(i)
    \/ \E i \in 1..MaxStartCalls : QueryReturns(i)
    \/ \E i \in 1..MaxStartCalls : CommitReturns(i)

SchedulerSpec == SchedulerInit /\ [][SchedulerNext]_vars

(***************************************************************************)
(* Properties                                                              *)
(***************************************************************************)
\* the node is in one of the levels of the running engine
Levelled(n) == \E k \in 1..Len(levels) : n \in SeqToSet(levels[k])

\* 1-based topological level of a node; a node that the levelling leaves out
\* is never reached by the scheduler and counts as behind the last level
LevelOf(n) ==
    IF Levelled(n) THEN CHOOSE k \in 1..Len(levels) : n \in SeqToSet(levels[k])
    ELSE Len(levels) + 1

\* position of a node inside its level
PosInLevel(n) ==
    IF Levelled(n)
    THEN CHOOSE i \in 1..Len(levels[LevelOf(n)]) : levels[LevelOf(n)][i] = n
    ELSE 1

\* the filter loop of the scheduler has already passed node n
Filtered(n) ==
    \/ level_idx > LevelOf(n)
    \/ level_idx = LevelOf(n) /\ filter_idx > PosInLevel(n)

\* the step stays inside one engine: no sub-engine is started or left
SameEngine == parent' = parent

\* the running engine is the sub-engine of a graph-level loop
InLoopBody == parent # << >> /\ AwaitedBy = "driving"

\* 1-based topological level of node n in the workflow the enclosing engine
\* runs
EnclosingLevelOf(n) ==
    LET lv == parent[1].analysis.levels
    IN  CHOOSE k \in 1..Len(lv) : n \in SeqToSet(lv[k])

\* C1 (as stated): in the whole run, sub-engines included, no handler of a
\* node at a higher level of the workflow's DAG has begun while the handler
\* of an executed node at a lower level has not completed.
C1_WorkflowLevelBarrier ==
    /\ \A n \in Nodes : \A m \in Nodes :
          (LevelOf(m) < LevelOf(n) /\ task[n] # "idle" /\ task[m] # "idle")
              => task[m] = "finished"
    /\ InLoopBody =>
          \A n \in Nodes : \A m \in NodeIds(parent[1].definition) :
              ( /\ EnclosingLevelOf(m) < EnclosingLevelOf(n)
                /\ calls[n] > 0
                /\ parent[1].task[m] # "idle" )
                  => parent[1].task[m] = "finished"

\* C1 (amended): within the run of one engine, a node of a level is
\* dispatched only when every node that engine dispatched at a lower level
\* has completed its _execute_with_retry (no handler of level k+1 begins
\* while a handler of level k is still pending).
C1_LevelBarrier ==
    \A n \in Nodes : \A m \in Nodes :
        (LevelOf(m) < LevelOf(n) /\ task[n] # "idle" /\ task[m] # "idle")
            => task[m] = "finished"

\* C1 witness: a node runs its handler after two parallel peers of the
\* previous level ran theirs
C1_Witness ==
    \E n \in Nodes : \E m1 \in Nodes : \E m2 \in Nodes :
        /\ m1 # m2
        /\ LevelOf(m1) + 1 = LevelOf(n) /\ LevelOf(m2) + 1 = LevelOf(n)
        /\ calls[n] > 0 /\ calls[m1] > 0 /\ calls[m2] > 0

\* C2: when run() has returned, every node has status done or error.
C2_AllNodesTerminal ==
    run_state = "returned" =>
        \A n \in Nodes : node_statuses[n] \in {"done", "error"}

\* C3: run() always ends by returning (it never raises), and the last
\* workflow_status event delivered carries status completed or error.
C3_RunNeverRaises ==
    pc = "done" =>
        /\ run_state = "returned"
        /\ last_event # << >>
        /\ last_event[1].status \in {"completed", "error"}

\* C4: a broadcast call that raises changes no node status, result, run
\* status or error, and does not end the run.
C4_BroadcastFailureSwallowed ==
    [][broadcast_failures' # broadcast_failures =>
          /\ node_statuses' = node_statuses
          /\ results' = results
          /\ status' = status
          /\ error' = error
          /\ run_state' = run_state]_vars

\* the join, in edge order, of results[source] over the incoming DAG edges of
\* n that are not blocked
ConcatOfUnblocked(n) ==
    LET unb == SelectSeq(incoming(n), LAMBDA e : e.id \notin blocked_edges)
    IN  Join(<<"\n\n---\n\n">>,
             [i \in 1..Len(unb) |-> MapGet(results, unb[i].source, EmptyStr)])

\* C5 (as stated): whenever a handler is invoked, the input it reads is the
\* concatenation of the results of its unblocked incoming edges, or the
\* initial input for a node without incoming edge.
C5_InputIsConcatenation ==
    [][SameEngine => \A n \in Nodes :
          calls'[n] > calls[n] =>
              node_input'[n] = IF incoming(n) = << >> THEN initial_input
                               ELSE ConcatOfUnblocked(n)]_vars

\* C5 (amended): whenever a handler is invoked, the input it reads is that
\* concatenation (or the initial input for a node without incoming edge)
\* after {var:NAME} substitution from the variable store.
C5_InputIsSubstitutedConcatenation ==
    [][SameEngine => \A n \in Nodes :
          calls'[n] > calls[n] =>
              node_input'[n] =
                  _substitute_variables(IF incoming(n) = << >> THEN initial_input
                                        ELSE ConcatOfUnblocked(n))]_vars

\* C5 witness: a node has run with one incoming edge blocked and another not
C5_Witness ==
    \E n \in Nodes :
        /\ calls[n] > 0
        /\ \E e \in SeqToSet(incoming(n)) : e.id \in blocked_edges
        /\ \E e \in SeqToSet(incoming(n)) : e.id \notin blocked_edges
        /\ node_input[n] # EmptyStr

\* node n has incoming DAG edges and all of them are blocked
OnlyBlockedIncoming(n) ==
    /\ Len(incoming(n)) > 0
    /\ \A i \in 1..Len(incoming(n)) : incoming(n)[i].id \in blocked_edges

\* C6 (as stated): a node whose incoming edges are all blocked is never
\* dispatched, its handler is never invoked and it is never marked running,
\* neither by the engine that schedules it nor in the node statuses of the
\* engine whose loop node runs that engine; once the filter loop has passed
\* it, it is done with result "" and all its out-edges are blocked.
C6_NeverMarkedRunning ==
    \A n \in Nodes :
        OnlyBlockedIncoming(n) =>
            /\ calls[n] = 0
            /\ task[n] = "idle"
            /\ node_statuses[n] # "running"
            /\ InLoopBody => parent[1].node_statuses[n] # "running"
            /\ Filtered(n) =>
                  /\ node_statuses[n] = "done"
                  /\ n \in DOMAIN results
                  /\ results[n] = EmptyStr
                  /\ \A i \in 1..Len(outgoing(n)) :
                        outgoing(n)[i].id \in blocked_edges

\* C6 (amended): a node whose incoming edges are all blocked is never
\* dispatched by the engine that schedules it, that engine never marks it
\* running and its handler is never invoked; once the filter loop has passed
\* it, it is done with result "" and all its out-edges are blocked.
C6_BranchSkip ==
    \A n \in Nodes :
        OnlyBlockedIncoming(n) =>
            /\ calls[n] = 0
            /\ task[n] = "idle"
            /\ node_statuses[n] # "running"
            /\ Filtered(n) =>
                  /\ node_statuses[n] = "done"
                  /\ n \in DOMAIN results
                  /\ results[n] = EmptyStr
                  /\ \A i \in 1..Len(outgoing(n)) :
                        outgoing(n)[i].id \in blocked_edges

\* C6 witness: a node skipped because its only parent was itself skipped
C6_Witness ==
    \E n \in Nodes : \E m \in Nodes :
        /\ OnlyBlockedIncoming(n) /\ OnlyBlockedIncoming(m)
        /\ \E e \in SeqToSet(incoming(n)) : e.source = m
        /\ node_statuses[n] = "done" /\ node_statuses[m] = "done"
        /\ calls[n] = 0

\* blocked_edges of the engines of the run, the top-level engine first and
\* the running engine last
EngineBlockedEdges ==
    [i \in 1..(Len(parent) + 1) |->
        IF i = Len(parent) + 1 THEN blocked_edges
        ELSE parent[Len(parent) + 1 - i].blocked_edges]

\* C7: the blocked_edges of an engine never loses an element in any step of
\* its run: neither the top-level engine's set, across the runs of the
\* sub-engines it starts, nor the set of a sub-engine while it runs.
C7_BlockedEdgesGrow ==
    [][\A i \in DOMAIN EngineBlockedEdges \cap DOMAIN EngineBlockedEdges' :
           EngineBlockedEdges[i] \subseteq EngineBlockedEdges'[i]]_vars

\* C7 witness: a branching node and a later branch-skip have both added edges
C7_Witness ==
    \E n \in Nodes : \E m \in Nodes :
        /\ nodeType(m) = "condition"
        /\ calls[m] > 0
        /\ \E e \in SeqToSet(incoming(n)) : e.source = m /\ e.id \in blocked_edges
        /\ OnlyBlockedIncoming(n)
        /\ outgoing(n) # << >>
        /\ \A i \in 1..Len(outgoing(n)) : outgoing(n)[i].id \in blocked_edges

\* _execute_with_retry of node n raised (onError = stop after all attempts)
FailedStop(n) == n \in DOMAIN outcomes /\ ~outcomes[n].ok

\* C8: when the engine reports the failure of a level, the run
\* status is error and the error string names every node of the level that
\* failed with onError = stop.
C8_ErrorNamesFailedNode ==
    \A n \in Nodes :
        (pc \in {"emit_single_err", "emit_level_err"} /\ FailedStop(n))
            => /\ status = "error"
               /\ error = <<"Node", n>> \o outcomes[n].value

\* every attempt of node n raised and its wrapper has ended
AttemptsExhausted(n) ==
    /\ task[n] = "finished"
    /\ calls[n] > 0
    /\ raises[n] = calls[n]

\* C9: once the scheduler has recorded a node whose attempts are exhausted,
\* onError alone decides what the node is: stop leaves it in error, skip
\* leaves it done with result "[skipped: error after retries]", fallback
\* leaves it done with result fallbackValue.
C9_OnErrorOutcome ==
    \A n \in Nodes :
        (AttemptsExhausted(n) /\ (n \in DOMAIN results \/ node_statuses[n] = "error"))
            => LET cfg == DataGet(nodeData(n), "onError", "stop")
               IN  CASE cfg = "skip" ->
                          /\ node_statuses[n] = "done"
                          /\ results[n] = <<"[skipped: error after retries]">>
                     [] cfg = "fallback" ->
                          /\ node_statuses[n] = "done"
                          /\ results[n] = DataGet(nodeData(n), "fallbackValue", EmptyStr)
                     [] OTHER ->
                          node_statuses[n] = "error"

\* C10: a dispatched node's handler is invoked at least once and at most
\* retryCount + 1 times, each further attempt follows a raised one, and the
\* i-th backoff sleep is retryDelay * i, for the configured values.
C10_RetryBounds ==
    \A n \in Nodes :
        task[n] = "finished" =>
            /\ calls[n] >= 1
            /\ calls[n] <= DataGet(nodeData(n), "retryCount", 0) + 1
            /\ calls[n] <= raises[n] + 1
            /\ \A i \in 1..Len(waits[n]) :
                  waits[n][i] = DataGet(nodeData(n), "retryDelay", 2) * i

\* max_iter of the _run_graph_loop call in progress
DriverMaxIter ==
    LET d == IF parent = << >> THEN definition ELSE parent[1].definition
    IN  DataGet(NodeOf(d, driver.node).data, "maxIterations", 3)

\* C11: one call of _run_graph_loop runs the sub-engine at most maxIterations
\* times, and at its return every node of the loop body is done (none is
\* running or waiting).
C11_LoopBounded ==
    "sub_runs" \in DOMAIN driver =>
        /\ driver.sub_runs <= DriverMaxIter
        /\ driver.pc = "return" =>
              \A m \in driver.loop_body_ids : node_statuses[m] = "done"

\* C11 witness: the driver is about to return after MaxIterations runs of the
\* sub-engine
C11_Witness ==
    /\ driver.pc = "return"
    /\ driver.sub_runs = MaxIterations
    /\ \A m \in driver.loop_body_ids : node_statuses[m] = "done"

\* C12: once the driver of a graph-level loop has started, every node of its
\* body is in skip_nodes, lies at a later level than the loop node and is
\* never dispatched by the engine of the loop node; while a sub-engine runs,
\* the nodes it executes are exactly the body nodes of the driver.
C12_BodySkipped ==
    /\ \A l \in Nodes :
          (IsGraphLoop(l) /\ calls[l] > 0) =>
              \A m \in analysis.body[l] :
                  /\ m \in skip_nodes
                  /\ LevelOf(m) > LevelOf(l)
                  /\ task[m] = "idle"
                  /\ calls[m] = 0
    /\ InLoopBody =>
          /\ Nodes = driver.loop_body_ids
          /\ \A m \in driver.loop_body_ids :
                /\ m \in parent[1].skip_nodes
                /\ parent[1].task[m] = "idle"
                /\ parent[1].calls[m] = 0

\* C12 witness: the scheduler has gone past the level of a body node that a
\* sub-engine executed, without dispatching it
C12_Witness ==
    \E l \in Nodes : \E m \in Nodes :
        /\ IsGraphLoop(l) /\ task[l] = "finished"
        /\ m \in analysis.body[l]
        /\ m \in DOMAIN results /\ results[m] # EmptyStr
        /\ level_idx > LevelOf(m)
        /\ calls[m] = 0

\* the frames of the engines whose meta_agent node awaits a sub-engine,
\* innermost first
MetaFrames ==
    SelectSeq(parent, LAMBDA f : f.task[f.active_nodes[1]] = "meta")

\* maxDepth of the top-level meta_agent node of the chain of sub-engines in
\* progress
ChainMaxDepth ==
    LET f == MetaFrames[Len(MetaFrames)]
    IN  max_depth(NodeOf(f.definition, f.active_nodes[1]).data)

\* C13: in a chain of nested meta_agent nodes that starts at a top-level
\* meta_agent with maxDepth = d, at most d sub-engines are nested, and a
\* meta_agent that has run at nesting depth >= d has spawned no sub-engine and
\* has returned "[Meta-Agent: max recursion depth (d) reached]".
C13_DepthBounded ==
    MetaFrames # << >> =>
        /\ Len(MetaFrames) <= ChainMaxDepth
        /\ \A n \in Nodes :
              ( /\ nodeType(n) = "meta_agent"
                /\ Len(MetaFrames) >= ChainMaxDepth
                /\ task[n] = "finished"
                /\ "workflowDefinition" \in DOMAIN nodeData(n) )
                  => /\ n \in DOMAIN results
                     /\ results[n] = <<"[Meta-Agent: max recursion depth (",
                                       IntText(ChainMaxDepth), ") reached]">>

\* run() has taken the  except asyncio.TimeoutError  branch (lines 166-168)
TimedOut ==
    /\ parent = << >>
    /\ error # EmptyStr
    /\ Head(error) = "Workflow timed out after"

\* C14: when the timeout of a run with timeout > 0 elapses, run() returns
\* with status error, an error message that notes the timeout and one
\* workflow_status event broadcast for it; a run with timeout = 0 is never
\* cancelled by elapsed time.
C14_TimeoutReturns ==
    /\ (TimedOut /\ pc = "done") =>
          /\ run_state = "returned"
          /\ status = "error"
          /\ error = <<"Workflow timed out after", TimeoutText(timeout)>>
          /\ last_event # << >>
          /\ last_event[1].type = "workflow_status"
          /\ last_event[1].status = "error"
          /\ last_event[1].error = error
    /\ (parent = << >> /\ timeout = 0) => ~TimedOut

\* the node tasks of the running engine that have not ended
PendingTasks ==
    {n \in Nodes : task[n] \in {"ready", "inflight", "backoff", "driving", "meta"}}

SubFailedOnStop ==
    /\ parent # << >>
    /\ pc = "done"
    /\ run_state = "returned"
    /\ status = "error"
    /\ \E n \in Nodes :
          /\ AttemptsExhausted(n)
          /\ on_error(n) = "stop"
          /\ node_statuses[n] = "error"

\* C16: when a node of a meta-agent sub-workflow or of a loop body has failed
\* with onError = stop, the run of the sub-engine ends in an exception raised
\* into the handler of the enclosing meta_agent or loop node (and from there
\* into its retry wrapper), instead of a result that lets the node complete.
C16_SubFailureBubbles ==
    [][(SubFailedOnStop /\ parent' = Tail(parent)) =>
          driver'.pc = "sub_raised"]_vars

\* C17 (as stated): any two node_streaming events broadcast for a node are
\* at least 80 ms apart.
C17_EventsThrottled ==
    \A i \in 1..Len(stream_events) : \A j \in 1..Len(stream_events) :
        (i < j /\ stream_events[i].node_id = stream_events[j].node_id)
            => stream_events[j].at - stream_events[i].at >= ThrottleMs

\* C17 (amended): within one call of a streaming handler, every
\* node_streaming event that carries a token of the model stream is at least
\* 80 ms after every earlier event of the node that went through
\* _stream_broadcast (a token or the complete content); the event with the
\* complete content and the fallback marker are not throttled.
C17_TokenEventsThrottled ==
    \A i \in 1..Len(stream_events) : \A j \in 1..Len(stream_events) :
        ( /\ i < j
          /\ stream_events[i].node_id = stream_events[j].node_id
          /\ stream_events[i].origin # "marker"
          /\ stream_events[j].origin = "token" )
            => stream_events[j].at - stream_events[i].at >= ThrottleMs

\* C17 witness: two tokens of one model stream have been broadcast, the
\* second at least 80 ms after the first
C17_Witness ==
    /\ call.pc = "stream"
    /\ Len(call.content_parts) = 2
    /\ Len(stream_events) = 2
    /\ stream_events[1].origin = "token"
    /\ stream_events[2].origin = "token"
    /\ stream_events[2].partial = call.content_parts
    /\ ~call.on_fallback

\* text a is a prefix of text b
TextPrefix(a, b) == Len(a) <= Len(b) /\ SubSeq(b, 1, Len(a)) = a

\* C18: the node_streaming events of a streaming node come in the order the
\* chunks were produced, each partial extends the one before, and when the
\* handler has returned the last event of the node carries the complete
\* content as its partial.
C18_LastEventComplete ==
    /\ \A i \in 1..(Len(stream_events) - 1) :
          TextPrefix(stream_events[i].partial, stream_events[i + 1].partial)
    /\ (call.pc = "returned" /\ stream_events # << >>) =>
          stream_events[Len(stream_events)].partial = call.result

\* the step of the handler call is an exception in the model stream or in a
\* broadcast
StreamException ==
    \/ call'.raised > call.raised
    \/ broadcast_failures' > broadcast_failures

\* C19: when the primary model of an agent node raises and fallbackModel is
\* set, the transition marker is broadcast, then the call is redone from an
\* empty content on the fallback model, and the result of the node is the
\* content of the stream that ended; when the fallback raises, or
\* fallbackModel is unset, the exception leaves the handler.
C19_FallbackRedone ==
    [][nodeType(call.node) = "agent" =>
          /\ ( /\ call.pc = "stream" /\ StreamException
               /\ ~call.on_fallback /\ fallback_model(call.node) # "" )
                 => call'.pc = "marker"
          /\ (call.pc = "marker" /\ call' # call) =>
                 /\ call'.pc = "stream"
                 /\ call'.on_fallback
                 /\ call'.model = fallback_model(call.node)
                 /\ call'.content_parts = << >>
                 /\ stream_events' # << >>
                 /\ stream_events'[Len(stream_events')].origin = "marker"
          /\ (call.pc = "stream" /\ call'.pc = "returned") =>
                 call'.result = call.content_parts
          /\ ( /\ call.pc = "stream" /\ StreamException
               /\ (call.on_fallback \/ fallback_model(call.node) = "") )
                 => call'.pc = "raised"]_vars

\* data.get("setVariable", "") of node w
set_variable(w) == DataGet(nodeData(w), "setVariable", "")

\* the variable names written, before node n of the running engine is
\* called, by completed nodes at earlier topological levels of the workflow:
\* those of the running engine and, for a node of a loop body, those written
\* in the engine of the loop node before the loop started
WrittenAbove(n) ==
    {set_variable(w) : w \in {m \in Nodes : /\ LevelOf(m) < LevelOf(n)
                                            /\ task[m] = "finished"
                                            /\ m \in DOMAIN results
                                            /\ set_variable(m) # ""}}
    \cup (IF InLoopBody THEN DOMAIN parent[1].variables ELSE {})

\* C20: in the input a node is called with, no {var:NAME} is left whose NAME
\* was written by a completed node at an earlier topological level of the
\* workflow.
C20_VariablesSubstituted ==
    \A n \in Nodes :
        calls[n] > 0 =>
            \A i \in 1..Len(node_input[n]) :
                VarName(node_input[n][i]) \notin WrittenAbove(n)

\* both runs of a workflow that was run twice have returned, without
\* timeout, adapter failure or broadcast failure
BothRunsReturned ==
    /\ history.first # << >>
    /\ ~history.adapter_raised
    /\ broadcast_failures = 0
    /\ parent = << >>
    /\ run_state = "returned"

\* C21: two runs of the same workflow with the same initial input, no
\* timeout and adapters that return identical outputs end with identical
\* results maps and identical node statuses, whatever the interleaving of
\* the parallel nodes of a level.
C21_RunsAgree ==
    BothRunsReturned =>
        /\ results = history.first[1].results
        /\ node_statuses = history.first[1].node_statuses

\* the step delivers a workflow_status event
EventDelivered == last_event' # last_event /\ last_event' # << >>

\* C22: the last workflow_status event of a run that ends completed or in
\* error carries the node results untruncated, and every earlier
\* workflow_status event carries each result cut to at most 500 characters
\* (stated for the runs in which every broadcast has succeeded).
C22_LastEventFull ==
    [][(EventDelivered /\ broadcast_failures' = 0) =>
          IF parent' = << >> /\ run_state' = "returned"
          THEN last_event'[1].results = status_results'
          ELSE \A k \in DOMAIN last_event'[1].results :
                  Len(last_event'[1].results[k]) <= ResultPreview]_vars

\* C23: at every emit of a workflow_status event, the event reports a result
\* for exactly the nodes of the results map that run() returns, and each
\* reported text is a prefix of the node's entry in that map, also for the
\* nodes skipped because their branch was blocked.
C23_EventsMatchResults ==
    [][(pc \in EmitPcs /\ EventDelivered) =>
          /\ DOMAIN last_event'[1].results = DOMAIN results'
          /\ \A k \in DOMAIN last_event'[1].results :
                TextPrefix(last_event'[1].results[k], results'[k])]_vars

\* some edge of definition d starts or ends at an id that d does not declare
HasUnknownEndpoint(d) ==
    \E i \in 1..Len(d.edges) :
        d.edges[i].source \notin NodeIds(d) \/ d.edges[i].target \notin NodeIds(d)

\* C24: when the workflow has an edge whose source or target is not a
\* declared node, no node is ever marked running, no node result is stored
\* and the run ends with status error.
C24_BadEdgeRejected ==
    (parent = << >> /\ HasUnknownEndpoint(definition)) =>
        /\ \A n \in Nodes : node_statuses[n] = "waiting"
        /\ results = EmptyMap
        /\ run_state = "returned" => status = "error"

\* the nodes of the level that has just been gathered whose handler ran
GatheredNodes == {n \in SeqToSet(active_nodes) : calls[n] > 0}

\* what the handler of node n adds to skip_nodes when it runs alone
SkipsOf(n) == IF IsGraphLoop(n) THEN analysis.body[n] ELSE {}

InputOutputDone ==
    /\ parent = << >>
    /\ definition \in {InputOutputFlow(c) : c \in InputConfigs}
    /\ "O" \in DOMAIN results

RECURSIVE ReachedFrom(_, _, _)
\* the ids reached from the ids of frontier over edges of the set E
ReachedFrom(E, frontier, reached) ==
    LET new == frontier \ reached
    IN  IF new = {} THEN reached
        ELSE ReachedFrom(E, {e.target : e \in {x \in E : x.source \in new}},
                         reached \cup new)

\* the ids that a path of one or more edges of E leads to from id n
Descendants(E, n) == ReachedFrom(E, {e.target : e \in {x \in E : x.source = n}}, {})

\* the positions at which node n stands in the levels
PlacesOf(n) ==
    {p \in (1..Len(levels)) \X (1..Cardinality(Nodes)) :
        p[2] <= Len(levels[p[1]]) /\ levels[p[1]][p[2]] = n}

\* C27: for every node list and edge list, the edges that are left when the
\* detected back-edges are removed form no cycle, every declared node stands
\* in exactly one level, and every DAG edge into a node comes from a node of
\* a lower level.
C27_LevelsCoverDag ==
    pc = "analysed" =>
        LET dag == SeqToSet(analysis.dag) IN
        /\ \A e \in dag : e.source \notin Descendants(dag, e.source)
        /\ \A n \in Nodes : Cardinality(PlacesOf(n)) = 1
        /\ \A e \in dag : e.target \in Nodes =>
                /\ Levelled(e.source)
                /\ LevelOf(e.source) < LevelOf(e.target)

\* the edges left after the back-edges are removed form no cycle
DagAcyclic ==
    \A e \in SeqToSet(analysis.dag) :
        e.source \notin Descendants(SeqToSet(analysis.dag), e.source)

\* forward(L) of the loop body identification: the ids reached from L over
\* DAG edges, L excluded
forward(L) == Descendants(SeqToSet(analysis.dag), L) \ {L}

\* backward(B): B and the ids that B is reached from over DAG edges, L
\* excluded
backward(B, L) ==
    {n \in {e.source : e \in SeqToSet(analysis.dag)} \cup {B} :
        n = B \/ B \in Descendants(SeqToSet(analysis.dag), n)} \ {L}

\* C28: for every detected back-edge B -> L, the loop body computed for L
\* and B is exactly forward(L) \cap backward(B), the ids other than L that
\* lie on a path of DAG edges from L to B, and B is one of them (so the body
\* is not empty) whenever B is not L.
C28_BodyIsPathNodes ==
    pc = "bodies" =>
        \A e \in DOMAIN analysis.bodies :
            /\ analysis.bodies[e] = forward(e.target) \cap backward(e.source, e.target)
            /\ e.source # e.target => e.source \in analysis.bodies[e]

\* the same holds of every graph whose remaining edges form no cycle; a
\* cycle can only remain through an id that no node declares
C28_BodyIsPathNodesInDag ==
    (pc = "bodies" /\ DagAcyclic) =>
        \A e \in DOMAIN analysis.bodies :
            /\ analysis.bodies[e] = forward(e.target) \cap backward(e.source, e.target)
            /\ e.source # e.target => e.source \in analysis.bodies[e]

\* a cycle remains among the DAG edges only when an edge has an endpoint that
\* no node declares
DagCycleNeedsUnknownId ==
    (pc = "bodies" /\ ~DagAcyclic) => HasUnknownEndpoint(definition)

\* the condition nodes of the running engine whose handler has executed
ExecutedConditions ==
    {n \in Nodes : nodeType(n) = "condition" /\ calls[n] > 0}

\* the label of the branch that loses at condition node n on its input
LosingLabel(n) ==
    IF _evaluate_condition(n, node_input[n]) THEN "false" ELSE "true"

\* C29: once a condition node has executed, the blocked edges among its
\* outgoing edges are exactly those labelled (up to case and surrounding
\* blanks) with the losing branch, false when the predicate holds of the
\* node's input and true when it does not, and the result handed on and
\* stored for the node is its input.
C29_LosingBranchBlocked ==
    \A n \in ExecutedConditions :
        /\ \A i \in 1..Len(outgoing(n)) :
               outgoing(n)[i].id \in blocked_edges
                   <=> NormLabel(outgoing(n)[i]) = LosingLabel(n)
        /\ n \in DOMAIN outcomes => outcomes[n] = [ok |-> TRUE, value |-> node_input[n]]
        /\ n \in DOMAIN results => results[n] = node_input[n]

\* a condition node has executed and stored its result, one of its outgoing
\* edges is blocked and another is not
C29_Witness ==
    \E n \in ExecutedConditions :
        /\ n \in DOMAIN results /\ results[n] # EmptyStr
        /\ \E i \in 1..Len(outgoing(n)) : outgoing(n)[i].id \in blocked_edges
        /\ \E i \in 1..Len(outgoing(n)) : outgoing(n)[i].id \notin blocked_edges

\* the out-edges of S, in edge order, whose case label matches the input
MatchingCases ==
    {i \in 1..Len(outgoing("S")) :
        /\ NormLabel(outgoing("S")[i]) \notin {"", "default"}
        /\ SwitchMatches("S", NormLabel(outgoing("S")[i]), node_input["S"])}

\* the label of the first matching case
WinningLabel ==
    NormLabel(outgoing("S")[CHOOSE i \in MatchingCases : \A j \in MatchingCases : i <= j])

\* C30: after the switch node has executed, the winning label is that of
\* the first out-edge in edge order whose non-empty, non-default label
\* matches; every edge with another case label is blocked; and the edges
\* labelled default and the unlabelled edges are blocked exactly when a
\* case matched.
C30_SwitchBlocksLosers ==
    pc = "switched" =>
        /\ driver.matched_label =
              (IF MatchingCases = {} THEN "default" ELSE WinningLabel)
        /\ \A i \in 1..Len(outgoing("S")) :
              LET e == outgoing("S")[i] IN
              IF NormLabel(e) \in {"", "default"}
              THEN e.id \in blocked_edges <=> MatchingCases # {}
              ELSE e.id \in blocked_edges
                      <=> (MatchingCases = {} \/ NormLabel(e) # WinningLabel)
        /\ outcomes["S"].value = node_input["S"]

\* what the handler does: as C30 says, except that an unlabelled edge is
\* never blocked
SwitchKeepsUnlabelled ==
    pc = "switched" =>
        /\ driver.matched_label =
              (IF MatchingCases = {} THEN "default" ELSE WinningLabel)
        /\ \A i \in 1..Len(outgoing("S")) :
              LET e == outgoing("S")[i] IN
              CASE NormLabel(e) = "" -> e.id \notin blocked_edges
                [] NormLabel(e) = "default" ->
                      e.id \in blocked_edges <=> MatchingCases # {}
                [] OTHER ->
                      e.id \in blocked_edges
                          <=> (MatchingCases = {} \/ NormLabel(e) # WinningLabel)

\* the switch node has executed, no case matched and no out-edge is labelled
\* default
NothingMatchedNoDefault ==
    /\ pc = "switched"
    /\ MatchingCases = {}
    /\ \A i \in 1..Len(outgoing("S")) : NormLabel(outgoing("S")[i]) # "default"

\* C31 as stated: when no case matches and no out-edge is labelled default,
\* executing the switch node adds no edge to blocked_edges.
C31_NothingBlocked ==
    NothingMatchedNoDefault => blocked_edges = {}

\* C31: when no case matches and no out-edge is labelled default, executing
\* the switch node blocks exactly its labelled out-edges, the case edges,
\* and leaves the unlabelled ones unblocked.
C31_CaseEdgesBlocked ==
    NothingMatchedNoDefault =>
        blocked_edges =
            {outgoing("S")[i].id : i \in
                {j \in 1..Len(outgoing("S")) : NormLabel(outgoing("S")[j]) # ""}}

\* nothing matched, there is no default edge, and the switch node has both a
\* case edge and an unlabelled edge
C31_Witness ==
    /\ NothingMatchedNoDefault
    /\ \E i \in 1..Len(outgoing("S")) : outgoing("S")[i].label = ""
    /\ \E i \in 1..Len(outgoing("S")) : outgoing("S")[i].label # ""

\* the answer the validator got could not be parsed: it holds no JSON
\* object, json.loads rejects the object, or int() rejects its score
Unparseable(r) == r.kind # "object" \/ r.score = "bad"

\* the verdict of the answer: valid only when it parses and says so
VerdictValid(r) == ~Unparseable(r) /\ r.valid = "true"

\* C32: after a validator node has executed, the blocked edges among its
\* out-edges are exactly those labelled fail when the verdict is valid and
\* exactly those labelled pass otherwise, an answer that cannot be parsed
\* counting as invalid.
C32_ValidatorBlocksOneSide ==
    pc = "validated" =>
        \A i \in 1..Len(outgoing("V")) :
            outgoing("V")[i].id \in blocked_edges
                <=> NormLabel(outgoing("V")[i]) =
                        (IF VerdictValid(driver.response) THEN "fail" ELSE "pass")

\* what the handler does: the side blocked follows the local valid, which
\* is true whenever the object says so, whether or not its score parses
ValidatorFollowsValidMember ==
    pc = "validated" =>
        /\ driver.valid = (driver.response.kind = "object"
                              /\ driver.response.valid = "true")
        /\ \A i \in 1..Len(outgoing("V")) :
              outgoing("V")[i].id \in blocked_edges
                  <=> NormLabel(outgoing("V")[i]) =
                          (IF driver.valid THEN "fail" ELSE "pass")

\* the workflow the run was started on
RootDefinition ==
    IF parent = << >> THEN definition ELSE parent[Len(parent)].definition

\* the loop nodes of the workflow that a back-edge of the workflow targets
BackEdgeLoops ==
    {n \in NodeIds(RootDefinition) :
        /\ NodeOf(RootDefinition, n).type = "loop"
        /\ \E i \in 1..Len(RootDefinition.edges) :
              /\ RootDefinition.edges[i].target = n
              /\ RootDefinition.edges[i].id \in _detect_back_edges(RootDefinition)}

\* C33: no loop node that a back-edge of the workflow targets is executed in
\* internal generate/critique mode, neither by the top-level engine nor by
\* the sub-engine of an enclosing graph-level loop.
C33_BackEdgeLoopsNeverInternal ==
    history.internal \cap BackEdgeLoops = {}

\* the top-level engine has finished the handler of a loop node L that exits
\* on a score, and no broadcast has failed
ScoreLoopOver ==
    /\ parent = << >> /\ broadcast_failures = 0
    /\ "L" \in Nodes /\ nodeType("L") = "loop"
    /\ DataGet(nodeData("L"), "exitConditionType", "keyword") = "score"
    /\ task["L"] = "finished"

\* the threshold C34 names: float(exitValue), 7.0 when none is configured
ClaimedThreshold ==
    IF "exitValue" \in DOMAIN nodeData("L") /\ nodeData("L").exitValue.text # EmptyStr
    THEN NumberOf(nodeData("L").exitValue.text[1])
    ELSE DefaultThreshold

\* the rounds the driver executes on exit results that all equal text
ClaimedRounds(text) ==
    IF /\ Numbers(text) # << >>
       /\ NumberOf(Numbers(text)[Len(Numbers(text))]) >= ClaimedThreshold
    THEN 1
    ELSE max_iter("L")

\* C34: a graph-level loop with exitConditionType score stops right after
\* the first iteration whose exit result has a last number at or above
\* float(exitValue), 7.0 when exitValue is not configured, and otherwise
\* runs maxIterations iterations; its result holds one round header per
\* executed iteration.  (The body of ScoreFlow hands on its input, so every
\* iteration has the loop node's input as exit result.)
C34_ScoreLoopStops ==
    ScoreLoopOver =>
        outcomes["L"] =
            [ok |-> TRUE,
             value |-> Join(<<"\n\n">>,
                            [i \in 1..ClaimedRounds(node_input["L"]) |->
                                <<RoundHeader(i - 1)>> \o node_input["L"]])]

\* the same holds whenever exitValue is configured, as a number or as the
\* empty str
ScoreLoopStopsWhenConfigured ==
    (ScoreLoopOver /\ "exitValue" \in DOMAIN nodeData("L")) =>
        outcomes["L"] =
            [ok |-> TRUE,
             value |-> Join(<<"\n\n">>,
                            [i \in 1..ClaimedRounds(node_input["L"]) |->
                                <<RoundHeader(i - 1)>> \o node_input["L"]])]

\* the loop nodes of the running engine whose body holds node b
OwnersOf(b) == {l \in Nodes : nodeType(l) = "loop" /\ b \in analysis.body[l]}

\* the body results that node n reads when its input is collected: the
\* sources of its unblocked incoming edges that have a stored result and lie
\* in the body of a loop that n is not in the body of
BodySourcesRead(n) ==
    {e.source : e \in {x \in SeqToSet(Unblocked(incoming(n))) :
                          /\ x.source \in DOMAIN results
                          /\ \E l \in OwnersOf(x.source) : n \notin analysis.body[l]}}

\* C35: whenever the top-level engine starts a node outside a loop body that
\* reads results of body nodes, every body result it reads was produced by
\* the last iteration that the loop's driver executed (in runs without a
\* failing broadcast).
C35_BodyResultsFromLastIteration ==
    [][\A n \in Nodes :
          (/\ parent = << >> /\ parent' = << >>
           /\ broadcast_failures = 0
           /\ calls'[n] > calls[n]) =>
              \A b \in BodySourcesRead(n) : \A l \in OwnersOf(b) :
                  l \in DOMAIN history.executed =>
                      /\ b \in DOMAIN history.produced
                      /\ history.produced[b] = history.executed[l]]_vars

\* C36: in internal generate/critique mode the generator is called at most
\* maxIterations times, and whatever the exit condition type, no generator
\* call follows a critic response whose first 100 characters, uppercased,
\* contain the stop token: that response is the last one and the handler has
\* returned the generator output it reviewed.
C36_StopTokenEndsLoop ==
    driver.pc # "idle" =>
        /\ driver.gen_calls <= max_iter("L")
        /\ \A i \in 1..Len(driver.critics) :
              StopsOnToken("L", driver.critics[i]) =>
                  /\ i = Len(driver.critics)
                  /\ task["L"] = "finished"
                  /\ outcomes["L"] = [ok |-> TRUE, value |-> Generated(i)]

\* with the exit condition type keyword and a str as stop token the loop
\* does stop on the first critic response that carries the token
KeywordStopTokenEndsLoop ==
    (/\ driver.pc # "idle"
     /\ DataGet(nodeData("L"), "exitConditionType", "keyword") = "keyword"
     /\ stop_condition("L").kind = "str") =>
        /\ driver.gen_calls <= max_iter("L")
        /\ \A i \in 1..Len(driver.critics) :
              StopsOnToken("L", driver.critics[i]) =>
                  /\ i = Len(driver.critics)
                  /\ task["L"] = "finished"
                  /\ outcomes["L"] = [ok |-> TRUE, value |-> Generated(i)]

\* a keyword loop has returned on a stop token
KeywordStopWitness ==
    /\ driver.pc = "return"
    /\ driver.critics # << >>
    /\ StopsLoop("L", driver.critics[Len(driver.critics)])
    /\ driver.gen_calls < max_iter("L")

\* the chunks the splitter is said to return: the text itself when it is no
\* longer than chunk_size, otherwise the windows of chunk_size characters
\* (cut at the end of the text) whose starts are chunk_size - overlap apart
ClaimedChunks(text, chunk_size, overlap, chunks) ==
    IF Len(text) <= chunk_size
    THEN chunks = <<text>>
    ELSE /\ \A i \in 1..Len(chunks) :
               chunks[i] = Slice(text, (i - 1) * (chunk_size - overlap),
                                 (i - 1) * (chunk_size - overlap) + chunk_size)
         /\ \A k \in 1..Len(text) :
               \E i \in 1..Len(chunks) :
                   /\ (i - 1) * (chunk_size - overlap) < k
                   /\ k <= (i - 1) * (chunk_size - overlap) + chunk_size

SplitReturned ==
    pc = "split_returned"
        => ClaimedChunks(driver.text, driver.chunk_size, driver.overlap, driver.chunks)

\* C37: splitting terminates for every text, chunkSize and overlap, and
\* returns one chunk when the text is no longer than chunkSize and otherwise
\* the windows of chunkSize characters, chunkSize - overlap apart, that
\* together cover the text.
C37_SplitTerminates ==
    /\ <>(pc = "split_returned")
    /\ [](pc = "split_returned"
            => ClaimedChunks(driver.text, driver.chunk_size, driver.overlap,
                             driver.chunks))

\* with overlap < chunkSize the splitter terminates and returns such windows
SplitTerminatesWhenAdvancing ==
    (_get(nodeData("C"), "overlap", "overlap", 200)
        < _get(nodeData("C"), "chunkSize", "chunk_size", 2000))
    => /\ <>(pc = "split_returned")
       /\ [](pc = "split_returned"
               => ClaimedChunks(driver.text, driver.chunk_size, driver.overlap,
                                driver.chunks))

\* C38: broadcast never raises, and a connection whose send fails is removed
\* from the connection list exactly once, whatever the interleaving of the
\* broadcast calls and the disconnect calls on it: no broadcast call has
\* raised, no socket has been removed twice, and a socket on which a send of
\* a broadcast has failed is out of the list after one removal.
C38_BroadcastNeverRaises ==
    /\ \A b \in Broadcasters : driver.broadcasts[b].pc # "raised"
    /\ \A w \in Sockets : driver.sockets[w].removed <= 1
    /\ \A b \in Broadcasters : \A w \in driver.broadcasts[b].failed :
          /\ w \notin SeqToSet(driver._connections)
          /\ driver.sockets[w].removed = 1

\* a socket is never removed from the list more than once, and what raises
\* in its place is the second remove
SocketRemovedAtMostOnce ==
    \A w \in Sockets : driver.sockets[w].removed <= 1

\* every engine from the running one up to the top-level one was started by
\* a graph loop: the running engine was given the run's workflow_id (line 1072)
CarriesRunId ==
    \A k \in 1..Len(parent) : parent[k].task[parent[k].active_nodes[1]] = "driving"

\* the node statuses of the top-level engine
TopLevelStatuses ==
    IF parent = << >> THEN node_statuses ELSE parent[Len(parent)].node_statuses

\* C39: a workflow_status event with status completed or error that carries
\* the run's workflow_id is not emitted while a top-level node of the run is
\* running (in runs without timeout and without a failing broadcast).
C39_TerminalEventIsLast ==
    [][(/\ EventDelivered
        /\ last_event'[1].type = "workflow_status"
        /\ last_event'[1].status \in {"completed", "error"}
        /\ timeout = 0
        /\ broadcast_failures' = 0
        /\ CarriesRunId)
       => \A n \in DOMAIN TopLevelStatuses : TopLevelStatuses[n] # "running"]_vars

\* a sub-engine started by a graph loop has reported the status completed
\* while the loop node is running at the top level
SubEngineReportedCompleted ==
    /\ parent # << >>
    /\ CarriesRunId
    /\ broadcast_failures = 0
    /\ ~history.adapter_raised
    /\ last_event # << >>
    /\ last_event[1].status = "completed"
    /\ \E n \in DOMAIN TopLevelStatuses : TopLevelStatuses[n] = "running"

====
